---- MODULE Spec2Model ----
(***************************************************************************)
(* Hybrid Retrieval Fusion Engine of neumann: the byte-safe line chunker   *)
(* (chunker.py), the lexical and semantic channels and the result fuser    *)
(* (indexer.py), the embedding client (embeddings.py).                     *)
(*                                                                         *)
(* The specifications share the module's variables:                        *)
(*   SpecChunker  one call of chunk_file_by_lines, one action per          *)
(*                iteration of its window loop;                            *)
(*   SpecHybrid   calls of hybrid_search over given channel results;       *)
(*   SpecLexical  one call of lexical_search against a code collection;    *)
(*   SpecScore    one call of _compute_lexical_score;                      *)
(*   SpecSemantic one call of semantic_search against the summaries;       *)
(*   SpecMerge    the fusion of one doc id's channel results;              *)
(*   SpecEmbed    one call of embed_texts (embeddings.py);                 *)
(*   SpecSearch   a call of any of the three search entry points;          *)
(*   SpecApi      a semantic search through the HTTP route or directly;    *)
(*   SpecMeta     a metadata value normalized, stored, read and parsed;    *)
(*   SpecChunkerLive  a call of chunk_file_by_lines under fairness.        *)
(* Each specification holds the other components' variables at rest.       *)
(***************************************************************************)
EXTENDS Integers, Sequences, FiniteSets, TLC

VARIABLES
    \* ---- chunker.py: chunk_file_by_lines ----
    text,        \* the input text, run-length encoded (see Runs)
    per_chunk,   \* argument per_chunk
    overlap,     \* argument overlap
    lines,       \* text.splitlines(keepends=True)
    start,       \* 0-based window start of the while loop
    chunks,      \* the list `chunks` built so far
    cpc,         \* "call", "loop", "done", "value_error", "decode_error", "idle"
    \* ---- indexer.py: hybrid_search ----
    query,        \* argument query
    filters,      \* bool(must_terms or regexes or path_like) of the request
    k,            \* argument k
    w_semantic,   \* argument w_semantic, in tenths
    w_lexical,    \* argument w_lexical, in tenths
    sem_results,  \* the list returned by semantic_search
    lex_results,  \* the list returned by lexical_search
    fused,        \* the list hybrid_search returns
    other_fused,  \* what the same call returns in a process that iterates the
                  \* set of doc ids in another order (kept for comparison)
    effective,    \* the request's filters are not all empty after sanitizing
    hcalls,       \* the external calls made so far: "collections", "embed", "query", "get"
    hpc,          \* "call", "semantic", "lexical", "fuse", "returned", "idle"
    \* ---- indexer.py: lexical_search ----
    code,          \* the search_code collection: the stored chunks, in storage order
    must_terms,    \* argument must_terms
    regexes,       \* argument regexes
    path_like,     \* argument path_like (Opt)
    lk,            \* argument k
    res,           \* the candidates of the last code.get(...)
    used_fallback, \* the broad fallback fetch was made
    lex_out,       \* the list lexical_search returns
    lgets,         \* number of code.get(...) calls made
    lpc,           \* "call", "fetch", "fallback", "assemble", "returned", "raised", "idle"
    \* ---- indexer.py: _compute_lexical_score ----
    sc_doc_str,    \* argument doc_str
    sc_terms,      \* argument terms
    sc_patterns,   \* argument compiled_patterns (the raw pattern strings)
    sc_result,     \* the returned (score, metrics), as one record
    scpc,          \* "call", "returned", "idle"
    \* ---- indexer.py: semantic_search ----
    sq,            \* argument query
    sk,            \* argument k
    summaries,     \* what the search_summaries collection holds, nearest first
    sem_out,       \* the list semantic_search returns
    sem_err,       \* the message of the ValueError raised, "" if none
    scalls,        \* the external calls made so far: "collections", "embed", "query"
    smpc,          \* "call", "embed", "query", "returned", "value_error", "idle"
    \* ---- indexer.py: hybrid_search, the loop body for one doc id ----
    m_sem,         \* sem_by_doc.get(did), an optional result
    m_lex,         \* lex_by_doc.get(did), an optional result
    m_out,         \* the dict appended to fused
    mpc,           \* "call", "returned", "idle"
    \* ---- embeddings.py: embed_texts ----
    n_texts,       \* len(texts)
    emodel,        \* argument model
    max_retries,   \* argument max_retries
    key_ok,        \* config.OPENAI_API_KEY is set
    batch_i,       \* the loop variable i of embed_texts
    attempt,       \* the loop variable of _embed_batch_with_retry
    last_error,    \* last_error of _embed_batch_with_retry, "" for None
    elog,          \* the API calls and sleeps made so far, in order
    all_embeddings,\* number of vectors collected in all_embeddings
    raised,        \* the exception embed_texts ended with, "" if none
    epc,           \* "call", "batch", "attempt", "returned", "raised", "idle"
    \* ---- api/routes/search.py: semantic_endpoint; semantic_search called directly ----
    a_via,         \* "api": through the endpoint, "direct": semantic_search itself
    a_key,         \* config.OPENAI_API_KEY is set
    a_query,       \* the query of the request
    a_k,           \* the k of the request
    a_cause,       \* the failure of the embedding call or of the index query (Opt)
    a_raised,      \* the message of the ValueError semantic_search raised (Opt)
    a_status,      \* the HTTP status of the response, 0 while there is none
    apc,           \* "request", "search", "embed", "query", "ok", "raised", "responded", "idle"
    \* ---- indexer.py: _normalize_metadata_for_chroma, _parse_meta_list ----
    mt_value,      \* the value of one metadata field, tagged with its type
    mt_stored,     \* the value _normalize_metadata_for_chroma stores for it
    mt_back,       \* _parse_meta_list of the stored value
    mt_parsed,     \* _parse_meta_list of the value itself
    mt_again,      \* _parse_meta_list of mt_parsed
    mtpc           \* "call", "stored", "hydrated", "parsed", "done", "idle"

cvars == <<text, per_chunk, overlap, lines, start, chunks, cpc>>

hvars == <<query, filters, k, w_semantic, w_lexical, sem_results, lex_results,
           fused, other_fused, effective, hcalls, hpc>>

lvars == <<code, must_terms, regexes, path_like, lk, res, used_fallback, lex_out,
           lgets, lpc>>

scvars == <<sc_doc_str, sc_terms, sc_patterns, sc_result, scpc>>

smvars == <<sq, sk, summaries, sem_out, sem_err, scalls, smpc>>

mvars == <<m_sem, m_lex, m_out, mpc>>

evars == <<n_texts, emodel, max_retries, key_ok, batch_i, attempt, last_error, elog,
           all_embeddings, raised, epc>>

avars == <<a_via, a_key, a_query, a_k, a_cause, a_raised, a_status, apc>>

mtvars == <<mt_value, mt_stored, mt_back, mt_parsed, mt_again, mtpc>>

ovars == <<avars, mtvars>>

nvars == <<scvars, smvars, mvars, evars, ovars>>

vars == <<cvars, hvars, lvars, nvars>>

----------------------------------------------------------------------------
(***************************************************************************)
(* Text representation.  A text is a sequence of runs; a run is c          *)
(* characters that each take w bytes in UTF-8, followed by one "\n" when   *)
(* nl is TRUE.  A character of w bytes is one lead byte and w-1            *)
(* continuation bytes (0b10xxxxxx).  Only "\n" is modelled as a line       *)
(* terminator.                                                             *)
(***************************************************************************)

\* bounds of the model
MaxRuns == 3
MaxPerChunk == 2

\* chunker.py:8
CHROMA_CLOUD_DOC_MAX_BYTES == 16384

Widths == {1, 3}
Counts == {1, 8192, 16384}

Run(w, c, nl) == [w |-> w, c |-> c, nl |-> nl]

Runs == {Run(w, c, nl) : w \in Widths, c \in Counts, nl \in BOOLEAN}
          \cup {Run(1, 0, TRUE)}

RECURSIVE SeqsUpTo(_, _)
SeqsUpTo(S, n) ==
    IF n = 0 THEN {<<>>}
    ELSE LET shorter == SeqsUpTo(S, n - 1)
         IN  shorter \cup {Append(s, x) : s \in {t \in shorter : Len(t) = n - 1}, x \in S}

Texts == SeqsUpTo(Runs, MaxRuns)

\* len(s.encode("utf-8")) of one run
RunBytes(r) == r.w * r.c + (IF r.nl THEN 1 ELSE 0)

\* len(s.encode("utf-8"))
RECURSIVE ByteLen(_)
ByteLen(s) == IF s = <<>> THEN 0 ELSE RunBytes(Head(s)) + ByteLen(Tail(s))

\* "".join(xs)
RECURSIVE Join(_)
Join(xs) == IF xs = <<>> THEN <<>> ELSE Head(xs) \o Join(Tail(xs))

\* text.splitlines(keepends=True): a line ends after each "\n"; a last line
\* without terminator is kept; the empty text has no lines
RECURSIVE SplitLinesAcc(_, _)
SplitLinesAcc(s, cur) ==
    IF s = <<>> THEN (IF cur = <<>> THEN <<>> ELSE <<cur>>)
    ELSE IF Head(s).nl
         THEN <<Append(cur, Head(s))>> \o SplitLinesAcc(Tail(s), <<>>)
         ELSE SplitLinesAcc(Tail(s), Append(cur, Head(s)))

SplitLines(s) == SplitLinesAcc(s, <<>>)

\* (b[p] & 0b11000000) == 0b10000000 for byte p (0-based) of s.encode("utf-8")
RECURSIVE IsContinuation(_, _)
IsContinuation(s, p) ==
    IF s = <<>> THEN FALSE
    ELSE LET r == Head(s)
         IN  IF p < r.w * r.c THEN (p % r.w) # 0
             ELSE IF p < RunBytes(r) THEN FALSE
             ELSE IsContinuation(Tail(s), p - RunBytes(r))

\* byte offset p is a character boundary of s
IsBoundary(s, p) == p = ByteLen(s) \/ ~IsContinuation(s, p)

\* the first nb bytes of s, for nb a character boundary
RECURSIVE TakeBytes(_, _)
TakeBytes(s, nb) ==
    IF nb = 0 \/ s = <<>> THEN <<>>
    ELSE LET r == Head(s)
         IN  IF RunBytes(r) <= nb THEN <<r>> \o TakeBytes(Tail(s), nb - RunBytes(r))
             ELSE <<Run(r.w, nb \div r.w, FALSE)>>

\* s without its first nb bytes, for nb a character boundary
RECURSIVE DropBytes(_, _)
DropBytes(s, nb) ==
    IF nb = 0 \/ s = <<>> THEN s
    ELSE LET r == Head(s)
         IN  IF RunBytes(r) <= nb THEN DropBytes(Tail(s), nb - RunBytes(r))
             ELSE <<Run(r.w, r.c - nb \div r.w, r.nl)>> \o Tail(s)

\* b[i:j].decode("utf-8", errors="strict") succeeds iff the slice holds whole
\* characters only
DecodeOk(s, i, j) == IsBoundary(s, i) /\ IsBoundary(s, j)

\* b[i:j].decode("utf-8")
Slice(s, i, j) == TakeBytes(DropBytes(s, i), j - i)

\* chunker.py:72-73: while j > i and b[j-1] is a continuation byte: j -= 1
RECURSIVE BackOff(_, _, _)
BackOff(s, i, j) ==
    IF j > i /\ IsContinuation(s, j - 1) THEN BackOff(s, i, j - 1) ELSE j

Min(a, b) == IF a < b THEN a ELSE b
Max(a, b) == IF a > b THEN a ELSE b

\* _split_line_by_bytes: the loop from offset i with the segments `out` so far.
\* Result: [ok, out]; ok is FALSE when decode raises UnicodeDecodeError or the
\* offset stops advancing.
RECURSIVE SplitFrom(_, _, _, _)
SplitFrom(s, max_bytes, i, out) ==
    IF i >= ByteLen(s) THEN [ok |-> TRUE, out |-> out]
    ELSE LET j == BackOff(s, i, Min(ByteLen(s), i + max_bytes))
         IN  IF j = i \/ ~DecodeOk(s, i, j) THEN [ok |-> FALSE, out |-> out]
             ELSE SplitFrom(s, max_bytes, j, Append(out, Slice(s, i, j)))

_split_line_by_bytes(s, max_bytes) == SplitFrom(s, max_bytes, 0, <<>>)

\* lines[a:b] for 0-based a <= b <= len(lines)
LinesSlice(ls, a, b) == SubSeq(ls, a + 1, b)

\* a plausible slip: the window is never shrunk
Shrink_Never(ls, st, end) == end

\* chunker.py:141-143, the greedy shrink of the window end
RECURSIVE Shrink(_, _, _)
Shrink(ls, st, end) ==
    IF ByteLen(Join(LinesSlice(ls, st, end))) > CHROMA_CLOUD_DOC_MAX_BYTES /\ end > st + 1
    THEN Shrink(ls, st, end - 1)
    ELSE end

\* chunker.py:137-143
WindowEnd(ls, st, pc) == Shrink(ls, st, Min(Len(ls), st + pc))

WindowText(ls, st, end) == Join(LinesSlice(ls, st, end))

\* a plausible slip: the step is taken from the requested window size
NextStart_RequestedSize(st, end, ov) == st + Max(1, per_chunk - ov)

\* a plausible slip: the step is the window length, the overlap is forgotten
NextStart_NoOverlap(st, end, ov) == st + Max(1, end - st)

\* a plausible slip: the step is not floored at 1
NextStart_NoFloor(st, end, ov) == st + ((end - st) - ov)

\* chunker.py:175-177: step by the actual window length minus the overlap, at least 1
NextStart(st, end, ov) == st + Max(1, (end - st) - ov)

Chunk(t, ls, le) == [text |-> t, line_start |-> ls, line_end |-> le]

\* map f over a sequence of segments to chunk records of line number ln
SegChunks(out, ln) == [x \in 1..Len(out) |-> Chunk(out[x], ln, ln)]

----------------------------------------------------------------------------
(* Strings are sequences of one-character strings. *)

\* an optional value: None or a value
NoneOpt == <<>>
Some(v) == <<v>>
IsNone(o) == o = <<>>
Val(o) == o[1]

\* str.strip()
RECURSIVE LStrip(_)
LStrip(str) == IF str # <<>> /\ Head(str) = " " THEN LStrip(Tail(str)) ELSE str

RECURSIVE RStrip(_)
RStrip(str) ==
    IF str # <<>> /\ str[Len(str)] = " " THEN RStrip(SubSeq(str, 1, Len(str) - 1)) ELSE str

Strip(str) == RStrip(LStrip(str))

----------------------------------------------------------------------------
(* chunk_file_by_lines *)

HybridIdle ==
    /\ query = <<>> /\ filters = FALSE /\ effective = FALSE /\ k = 0
    /\ w_semantic = 0 /\ w_lexical = 0
    /\ sem_results = <<>> /\ lex_results = <<>>
    /\ fused = <<>> /\ other_fused = <<>>
    /\ hcalls = {}
    /\ hpc = "idle"

LexicalIdle ==
    /\ code = <<>> /\ must_terms = <<>> /\ regexes = <<>> /\ path_like = <<>>
    /\ lk = 0 /\ res = <<>> /\ used_fallback = FALSE /\ lex_out = <<>>
    /\ lgets = 0
    /\ lpc = "idle"

ScoreIdle ==
    /\ sc_doc_str = <<>> /\ sc_terms = <<>> /\ sc_patterns = <<>>
    /\ sc_result = <<>> /\ scpc = "idle"

SemanticIdle ==
    /\ sq = <<>> /\ sk = 0 /\ summaries = <<>> /\ sem_out = <<>>
    /\ sem_err = "" /\ scalls = {} /\ smpc = "idle"

MergeIdle ==
    /\ m_sem = <<>> /\ m_lex = <<>> /\ m_out = <<>> /\ mpc = "idle"

EmbedIdle ==
    /\ n_texts = 0 /\ emodel = "" /\ max_retries = 0 /\ key_ok = FALSE
    /\ batch_i = 0 /\ attempt = 0 /\ last_error = ""
    /\ elog = <<>> /\ all_embeddings = 0 /\ raised = "" /\ epc = "idle"

ApiIdle ==
    /\ a_via = "" /\ a_key = FALSE /\ a_query = <<>> /\ a_k = 0
    /\ a_cause = <<>> /\ a_raised = <<>> /\ a_status = 0 /\ apc = "idle"

MetaIdle ==
    /\ mt_value = <<>> /\ mt_stored = <<>> /\ mt_back = <<>>
    /\ mt_parsed = <<>> /\ mt_again = <<>> /\ mtpc = "idle"

OtherIdle == ApiIdle /\ MetaIdle

ChunkInit ==
    /\ HybridIdle
    /\ LexicalIdle
    /\ ScoreIdle /\ SemanticIdle /\ MergeIdle /\ EmbedIdle /\ OtherIdle
    /\ text \in Texts
    /\ per_chunk \in 0..MaxPerChunk
    /\ overlap \in -1..MaxPerChunk
    /\ lines = <<>>
    /\ start = 0
    /\ chunks = <<>>
    /\ cpc = "call"

\* a plausible slip: an overlap equal to per_chunk passes the validation
Enter_OverlapEqual ==
    /\ cpc = "call"
    /\ IF per_chunk <= 0 \/ overlap < 0 \/ overlap > per_chunk
       THEN /\ cpc' = "value_error"
            /\ UNCHANGED lines
       ELSE /\ lines' = SplitLines(text)
            /\ cpc' = IF Len(SplitLines(text)) = 0 THEN "done" ELSE "loop"
    /\ UNCHANGED <<text, per_chunk, overlap, start, chunks>>
    /\ UNCHANGED <<hvars, lvars, nvars>>

\* chunker.py:117-134: parameter validation, splitlines, the empty-text return
Enter ==
    /\ cpc = "call"
    /\ IF per_chunk <= 0 \/ overlap < 0 \/ overlap >= per_chunk
       THEN /\ cpc' = "value_error"
            /\ UNCHANGED lines
       ELSE /\ lines' = SplitLines(text)
            /\ cpc' = IF Len(SplitLines(text)) = 0 THEN "done" ELSE "loop"
    /\ UNCHANGED <<text, per_chunk, overlap, start, chunks>>
    /\ UNCHANGED <<hvars, lvars, nvars>>

\* chunker.py:146-157: the single line at `start` exceeds the limit and is split
SplitOversizedLine ==
    /\ cpc = "loop"
    /\ start < Len(lines)
    /\ \E end \in {WindowEnd(lines, start, per_chunk)} :
           /\ ByteLen(WindowText(lines, start, end)) > CHROMA_CLOUD_DOC_MAX_BYTES
           /\ end = start + 1
    /\ \E segs \in {_split_line_by_bytes(lines[start + 1], CHROMA_CLOUD_DOC_MAX_BYTES)} :
           IF segs.ok
           THEN /\ chunks' = chunks \o SegChunks(segs.out, start + 1)
                /\ start' = start + 1
                /\ cpc' = "loop"
           ELSE \* UnicodeDecodeError leaves the function: nothing is returned
                /\ chunks' = <<>>
                /\ start' = start
                /\ cpc' = "decode_error"
    /\ UNCHANGED <<text, per_chunk, overlap, lines>>
    /\ UNCHANGED <<hvars, lvars, nvars>>

\* chunker.py:159-177: the (possibly shrunk) window is emitted and the start advances
EmitWindow ==
    /\ cpc = "loop"
    /\ start < Len(lines)
    /\ \E end \in {WindowEnd(lines, start, per_chunk)} :
         \E chunk_text \in {WindowText(lines, start, end)} :
           /\ ~(ByteLen(chunk_text) > CHROMA_CLOUD_DOC_MAX_BYTES /\ end = start + 1)
           /\ chunks' = Append(chunks, Chunk(chunk_text, start + 1, end))
           /\ IF end >= Len(lines)
              THEN /\ cpc' = "done"
                   /\ start' = start
              ELSE /\ cpc' = "loop"
                   /\ start' = NextStart(start, end, overlap)
    /\ UNCHANGED <<text, per_chunk, overlap, lines>>
    /\ UNCHANGED <<hvars, lvars, nvars>>

\* chunker.py:136, 179: the loop condition fails and `chunks` is returned
ReturnChunks ==
    /\ cpc = "loop"
    /\ start >= Len(lines)
    /\ cpc' = "done"
    /\ UNCHANGED <<text, per_chunk, overlap, lines, start, chunks>>
    /\ UNCHANGED <<hvars, lvars, nvars>>

ChunkNext == Enter \/ SplitOversizedLine \/ EmitWindow \/ ReturnChunks

SpecChunker == ChunkInit /\ [][ChunkNext]_vars

----------------------------------------------------------------------------
(* Properties of the chunker *)

ValidParams == per_chunk > 0 /\ 0 <= overlap /\ overlap < per_chunk

ChunkIdx == 1..Len(chunks)

\* a chunk that is one segment of a split oversized line: another chunk
\* carries the same single line
IsSegment(x) ==
    /\ chunks[x].line_start = chunks[x].line_end
    /\ \E y \in ChunkIdx : y # x /\ chunks[y].line_start = chunks[x].line_start
                                  /\ chunks[y].line_end = chunks[x].line_end

\* C1: every chunk built by chunk_file_by_lines, at every point of the loop and
\* in the returned list, has a text of at most 16384 bytes in UTF-8.
C1_ChunkWithinByteLimit ==
    \A x \in ChunkIdx : ByteLen(chunks[x].text) <= CHROMA_CLOUD_DOC_MAX_BYTES

\* C1 witness: a returned list holding segments of a split line (one of them
\* of exactly 16384 bytes) and a window that was shrunk below per_chunk lines.
C1_Witness ==
    /\ cpc = "done"
    /\ \E x \in ChunkIdx : IsSegment(x) /\ ByteLen(chunks[x].text) = CHROMA_CLOUD_DOC_MAX_BYTES
    /\ \E x \in ChunkIdx :
          /\ ~IsSegment(x)
          /\ chunks[x].line_end - chunks[x].line_start + 1 < per_chunk
          /\ chunks[x].line_end < Len(lines)

\* C2 (as claimed): chunk_file_by_lines never fails on content; an oversized
\* line with multi-byte characters is split without an exception.
C2_NeverFailsOnContent == cpc # "decode_error"

\* C3: when chunk_file_by_lines returns for a non-empty text of n lines, the
\* ranges [line_start, line_end] of the returned chunks cover exactly 1..n and
\* every chunk has 1 <= line_start <= line_end <= n.
C3_RangesCoverAllLines ==
    (cpc = "done" /\ Len(lines) > 0) =>
        /\ UNION {chunks[x].line_start .. chunks[x].line_end : x \in ChunkIdx} = 1..Len(lines)
        /\ \A x \in ChunkIdx : /\ 1 <= chunks[x].line_start
                                /\ chunks[x].line_start <= chunks[x].line_end
                                /\ chunks[x].line_end <= Len(lines)

\* C3 witness: a returned list for three lines in which the first window was
\* shrunk by the byte limit and a later window spans two lines.
C3_Witness ==
    /\ cpc = "done"
    /\ Len(lines) = 3
    /\ per_chunk = 2
    /\ Len(chunks) >= 2
    /\ chunks[1].line_start = 1 /\ chunks[1].line_end = 1
    /\ ~IsSegment(1)
    /\ \E x \in ChunkIdx : chunks[x].line_end > chunks[x].line_start


\* C25: once past its parameter checks, chunk_file_by_lines has raised the
\* parameter-validation ValueError exactly if per_chunk <= 0, overlap < 0 or
\* overlap >= per_chunk, whatever the text; it has then built no chunk and
\* never returns.
C25_ValidationError ==
    cpc # "call" =>
      /\ ~ValidParams => cpc = "value_error" /\ chunks = <<>> /\ lines = <<>>
      /\ ValidParams => cpc # "value_error"

\* C25 witness: the empty text with overlap = per_chunk > 0 is refused.
C25_Witness ==
    /\ cpc = "value_error"
    /\ text = <<>>
    /\ per_chunk > 0 /\ overlap = per_chunk

\* the line at 0-based index st is split: alone it exceeds the byte limit
IsOversized(st) == ByteLen(lines[st + 1]) > CHROMA_CLOUD_DOC_MAX_BYTES

\* chunk x and the chunk after it are two segments of one split line
SegmentPair(x) ==
    /\ chunks[x].line_start = chunks[x].line_end
    /\ chunks[x + 1].line_start = chunks[x].line_start
    /\ chunks[x + 1].line_end = chunks[x].line_end
    /\ IsOversized(chunks[x].line_start - 1)

\* C28 (as claimed): of two consecutive chunks the later one starts at or
\* before max(1, earlier.line_end - overlap + 1).
C28_ConsecutiveOverlap ==
    ValidParams =>
      \A x \in 1..(Len(chunks) - 1) :
         chunks[x + 1].line_start <= Max(1, chunks[x].line_end - overlap + 1)

\* C28 (amended): of two consecutive chunks that are not two segments of one
\* split line, the later one starts at
\* max(earlier.line_start + 1, earlier.line_end - overlap + 1): at the overlap
\* distance before the earlier chunk's end when the earlier chunk spans more
\* than `overlap` lines, and one line after the earlier chunk's start
\* otherwise; it never starts after earlier.line_end + 1.
C28_ConsecutiveStart ==
    ValidParams =>
      \A x \in 1..(Len(chunks) - 1) :
         \/ SegmentPair(x)
         \/ /\ chunks[x + 1].line_start =
                  Max(chunks[x].line_start + 1, chunks[x].line_end - overlap + 1)
            /\ chunks[x + 1].line_start <= chunks[x].line_end + 1
            /\ (chunks[x].line_end - chunks[x].line_start + 1 > overlap) =>
                  chunks[x + 1].line_start <= Max(1, chunks[x].line_end - overlap + 1)

\* C28 witness: with overlap 1 a two-line window was shrunk to its first
\* line, and the next chunk starts on the line after it; a later window
\* spans two lines.
C28_Witness ==
    /\ cpc = "done"
    /\ per_chunk = 2 /\ overlap = 1
    /\ Len(chunks) >= 2
    /\ chunks[1].line_start = 1 /\ chunks[1].line_end = 1
    /\ ~IsOversized(0)
    /\ chunks[2].line_start = 2
    /\ \E x \in ChunkIdx : chunks[x].line_end > chunks[x].line_start

\* main.py:115: f"{doc_id}#L{ch['line_start']}-{ch['line_end']}", the parts of
\* the formatted string in order
ChunkId(doc_id, ch) == <<doc_id, "#L", ch.line_start, "-", ch.line_end>>

\* main.py:113-125: one upsert item per chunk
build_chunk_upsert_items(doc_id) ==
    [x \in ChunkIdx |-> [id |-> ChunkId(doc_id, chunks[x]),
                         document |-> chunks[x].text,
                         line_start |-> chunks[x].line_start,
                         line_end |-> chunks[x].line_end]]

\* C29 (as claimed): the storage keys built for the returned chunks of one
\* document are pairwise distinct: no two chunks share (line_start, line_end).
C29_ChunkKeysDistinct ==
    (cpc = "done" /\ ValidParams) =>
      LET items == build_chunk_upsert_items("doc")
      IN  \A x, y \in ChunkIdx :
             x # y => /\ items[x].id # items[y].id
                      /\ <<chunks[x].line_start, chunks[x].line_end>> #
                           <<chunks[y].line_start, chunks[y].line_end>>

----------------------------------------------------------------------------
(***************************************************************************)
(* hybrid_search (indexer.py).  Scores are fixed-point: a channel score is *)
(* an integer number of hundredths, a weight an integer number of tenths,  *)
(* a combined score an integer number of thousandths.  An rrf score is an  *)
(* integer numerator over the common denominator RRFDen.                   *)
(***************************************************************************)

\* bound of the model: the largest k requested
MaxK == 2

\* indexer.py:749
RRF_K == 60

DocIds == {"a", "b", "c"}

\* query of the requests: "", " ", "q"
Queries == {<<>>, <<" ">>, <<"q">>}

\* 1.0 as a channel score (hundredths) and as a combined score (thousandths)
ScoreOne == 10 * 10
CombinedOne == 10 * ScoreOne

\* _distance_to_score: 1/(1+d) for the distances 1 and 0
SemScores == {50, 100}
\* lexical_search: 0.0 (path filter given, candidate without source_path),
\* the path-only baseline 0.25, a term score
LexScores == {0, 25, 50}

SemWeights == {0, 6}
LexWeights == {4, 10}

Result(d, sc) == [doc_id |-> d, score |-> sc]

\* a channel returns its results best first
SortedDesc(rs) == \A x \in 1..(Len(rs) - 1) : rs[x].score >= rs[x + 1].score

\* the lists semantic_search(q, n) can return: at most n results (n_results=n)
SemLists(n) ==
    {rs \in SeqsUpTo({Result(d, sc) : d \in DocIds, sc \in SemScores}, n) : SortedDesc(rs)}

\* the lists lexical_search(..., k=n) can return: sorted by score, cut to n
LexLists(n) ==
    {rs \in SeqsUpTo({Result(d, sc) : d \in DocIds, sc \in LexScores}, n) : SortedDesc(rs)}

\* common denominator of 1/(RRF_K + rank + 1) for the ranks 0..n-1
RECURSIVE RankProduct(_)
RankProduct(n) == IF n = 0 THEN 1 ELSE (RRF_K + n) * RankProduct(n - 1)

RRFDen == RankProduct(MaxK + 1)

None == -1

\* indexer.py:776-786: rank of the first occurrence of did in a channel list,
\* None when the channel does not hold it
RECURSIVE RankFrom(_, _, _)
RankFrom(rs, did, i) ==
    IF i > Len(rs) THEN None
    ELSE IF rs[i].doc_id = did THEN i - 1
    ELSE RankFrom(rs, did, i + 1)

RankByDoc(rs, did) == RankFrom(rs, did, 1)

\* sem_by_doc.get(did) / lex_by_doc.get(did): the first occurrence
MatchByDoc(rs, did) == rs[RankByDoc(rs, did) + 1]

\* set(sem_by_doc) | set(lex_by_doc)
FusedIds(sem, lex) ==
    {sem[x].doc_id : x \in 1..Len(sem)} \cup {lex[x].doc_id : x \in 1..Len(lex)}

\* a plausible slip: the rank is used 1-based twice
RRFComponent_OffByOne(rank, rrf_k) ==
    IF rank = None THEN 0 ELSE RRFDen \div (rrf_k + Max(rank, 0) + 2)

\* indexer.py:387-391
_rrf_component(rank, rrf_k) ==
    IF rank = None THEN 0 ELSE RRFDen \div (rrf_k + Max(rank, 0) + 1)

\* a plausible slip: the weighted sum is applied to single-channel ids too
Combined_AlwaysWeighted(in_sem, in_lex, sem_score, lex_score) ==
    w_semantic * sem_score + w_lexical * lex_score

\* indexer.py:802: weighted sum if both present, else `sem_score or lex_score`
Combined(in_sem, in_lex, sem_score, lex_score) ==
    IF in_sem /\ in_lex
    THEN w_semantic * sem_score + w_lexical * lex_score
    ELSE 10 * (IF sem_score # 0 THEN sem_score ELSE lex_score)

\* (match or {}).get(key) for a key whose value is optional (source_path,
\* line_start, line_end): None when there is no match or it has no such key
GetField(match, key) ==
    IF IsNone(match) THEN NoneOpt
    ELSE IF key \in DOMAIN Val(match) THEN Val(match)[key]
    ELSE NoneOpt

\* (match or {}).get(key) for a key whose value is a list (page_uris, why)
GetList(match, key) ==
    IF IsNone(match) THEN NoneOpt
    ELSE IF key \in DOMAIN Val(match) THEN Some(Val(match)[key])
    ELSE NoneOpt

\* a or b on optional strings and on optional numbers
OrStr(a, b) == IF ~IsNone(a) /\ Val(a) # "" THEN a ELSE b
OrInt(a, b) == IF ~IsNone(a) /\ Val(a) # 0 THEN a ELSE b

\* `out` extended by the entries of src that are not empty and not yet in it
RECURSIVE ExtendUnique(_, _)
ExtendUnique(out, src) ==
    IF src = <<>> THEN out
    ELSE IF Head(src) = "" \/ \E x \in 1..Len(out) : out[x] = Head(src)
         THEN ExtendUnique(out, Tail(src))
         ELSE ExtendUnique(Append(out, Head(src)), Tail(src))

\* a plausible slip: the two lists are concatenated
MergeUnique_Concat(a, b) ==
    (IF IsNone(a) THEN <<>> ELSE Val(a)) \o (IF IsNone(b) THEN <<>> ELSE Val(b))

\* indexer.py:394-405
_merge_unique_ordered(a, b) ==
    ExtendUnique(ExtendUnique(<<>>, IF IsNone(a) THEN <<>> ELSE Val(a)),
                 IF IsNone(b) THEN <<>> ELSE Val(b))

\* indexer.py:811-815: the why lists that are lists, lexical first
WhyOf(match) ==
    IF IsNone(GetList(match, "why")) THEN <<>> ELSE Val(GetList(match, "why"))

\* indexer.py:791-830: the dict appended to fused for doc id did, from its
\* first match and rank in each channel
FuseRecord(did, sem_match, lex_match, sem_rank, lex_rank) ==
    LET sem_score == IF IsNone(sem_match) THEN 0 ELSE Val(sem_match).score
        lex_score == IF IsNone(lex_match) THEN 0 ELSE Val(lex_match).score
    IN  [doc_id      |-> did,
         source_path |-> OrStr(GetField(lex_match, "source_path"),
                               GetField(sem_match, "source_path")),
         score       |-> Combined(~IsNone(sem_match), ~IsNone(lex_match),
                                  sem_score, lex_score),
         sem_score   |-> sem_score,
         lex_score   |-> lex_score,
         rrf_score   |-> _rrf_component(sem_rank, RRF_K) + _rrf_component(lex_rank, RRF_K),
         page_uris   |-> _merge_unique_ordered(GetList(lex_match, "page_uris"),
                                               GetList(sem_match, "page_uris")),
         line_start  |-> OrInt(GetField(lex_match, "line_start"),
                               GetField(sem_match, "line_start")),
         line_end    |-> OrInt(GetField(lex_match, "line_end"),
                               GetField(sem_match, "line_end")),
         why         |-> WhyOf(lex_match) \o WhyOf(sem_match)]

\* indexer.py:790-795: the matches and ranks of doc id did in the channel lists
FuseOne(sem, lex, did) ==
    LET sem_rank == RankByDoc(sem, did)
        lex_rank == RankByDoc(lex, did)
    IN  FuseRecord(did,
                   IF sem_rank = None THEN NoneOpt ELSE Some(MatchByDoc(sem, did)),
                   IF lex_rank = None THEN NoneOpt ELSE Some(MatchByDoc(lex, did)),
                   sem_rank, lex_rank)

\* the orders in which a Python set of strings can be iterated
RECURSIVE Orders(_)
Orders(S) ==
    IF S = {} THEN {<<>>}
    ELSE UNION {{<<d>> \o o : o \in Orders(S \ {d})} : d \in S}

\* a plausible slip: ties on score are not broken by rrf_score
KeyGreater_ScoreOnly(a, b) == a.score > b.score

\* indexer.py:833: the sort key (score, rrf_score), compared for reverse=True
KeyGreater(a, b) ==
    \/ a.score > b.score
    \/ a.score = b.score /\ a.rrf_score > b.rrf_score

\* list.sort(reverse=True) is stable: r goes behind every element that is not
\* smaller than it
RECURSIVE InsertDesc(_, _)
InsertDesc(sorted, r) ==
    IF sorted = <<>> THEN <<r>>
    ELSE IF KeyGreater(r, Head(sorted)) THEN <<r>> \o sorted
    ELSE <<Head(sorted)>> \o InsertDesc(Tail(sorted), r)

RECURSIVE SortDesc(_)
SortDesc(rs) ==
    IF rs = <<>> THEN <<>>
    ELSE InsertDesc(SortDesc(SubSeq(rs, 1, Len(rs) - 1)), rs[Len(rs)])

\* a plausible slip: one result too many
Truncate_OneMore(rs, n) == SubSeq(rs, 1, Min(Len(rs), n + 1))

\* indexer.py:834: fused[:k] for k > 0
Truncate(rs, n) == SubSeq(rs, 1, Min(Len(rs), n))

\* indexer.py:788-834 for one iteration order of the id set
Fuse(sem, lex, order, n) ==
    Truncate(SortDesc([x \in 1..Len(order) |-> FuseOne(sem, lex, order[x])]), n)

ChunkIdle ==
    /\ text = <<>> /\ per_chunk = 0 /\ overlap = 0
    /\ lines = <<>> /\ start = 0 /\ chunks = <<>>
    /\ cpc = "idle"

HybridInit ==
    /\ ChunkIdle
    /\ LexicalIdle
    /\ ScoreIdle /\ SemanticIdle /\ MergeIdle /\ EmbedIdle /\ OtherIdle
    /\ query \in Queries
    /\ filters \in BOOLEAN
    /\ effective \in {e \in BOOLEAN : e => filters}
    /\ hcalls = {}
    /\ k \in 0..MaxK
    /\ w_semantic \in SemWeights
    /\ w_lexical \in LexWeights
    /\ sem_results = <<>>
    /\ lex_results = <<>>
    /\ fused = <<>>
    /\ other_fused = <<>>
    /\ hpc = "call"

\* a plausible slip: the query is used as given
Q_Unstripped == query

\* indexer.py:751: q = (query or "").strip()
Q == Strip(query)

\* indexer.py:751-760: the degenerate requests return [] before any channel runs
HybridEnter ==
    /\ hpc = "call"
    /\ IF k <= 0 \/ (Q = <<>> /\ ~filters)
       THEN hpc' = "returned"
       ELSE hpc' = "semantic"
    /\ UNCHANGED <<query, filters, effective, k, w_semantic, w_lexical, sem_results,
                   lex_results, fused, other_fused, hcalls>>
    /\ UNCHANGED <<cvars, lvars, nvars>>

\* indexer.py:763: semantic_search(q, k) if run_semantic else []; the channel
\* embeds the query and queries the summaries (indexer.py:639, 653)
SemanticChannel ==
    /\ hpc = "semantic"
    /\ IF Q # <<>>
       THEN /\ sem_results' \in SemLists(k)
            /\ hcalls' = hcalls \cup {"collections", "embed", "query"}
       ELSE /\ sem_results' = <<>>
            /\ UNCHANGED hcalls
    /\ hpc' = "lexical"
    /\ UNCHANGED <<query, filters, effective, k, w_semantic, w_lexical, lex_results,
                   fused, other_fused>>
    /\ UNCHANGED <<cvars, lvars, nvars>>

\* a plausible slip: the fusion is started without the lexical results
LexicalChannel_NotAwaited ==
    /\ hpc = "lexical"
    /\ lex_results' = <<>>
    /\ hpc' = "fuse"
    /\ UNCHANGED <<query, filters, effective, k, w_semantic, w_lexical, sem_results,
                   fused, other_fused, hcalls>>
    /\ UNCHANGED <<cvars, lvars, nvars>>

\* indexer.py:764-768: lexical_search(..., k=k) if run_lexical else []; the
\* channel returns [] before its code.get when no filter is left after
\* sanitizing (indexer.py:452)
LexicalChannel ==
    /\ hpc = "lexical"
    /\ IF filters /\ effective
       THEN /\ lex_results' \in LexLists(k)
            /\ hcalls' = hcalls \cup {"collections", "get"}
       ELSE /\ lex_results' = <<>>
            /\ UNCHANGED hcalls
    /\ hpc' = "fuse"
    /\ UNCHANGED <<query, filters, effective, k, w_semantic, w_lexical, sem_results,
                   fused, other_fused>>
    /\ UNCHANGED <<cvars, lvars, nvars>>

\* indexer.py:770-834: rank maps, fusion over the id set, sort, truncation.
\* The iteration order of the set of ids is not fixed by the program: it
\* depends on the process's string hashing.
FuseAndReturn ==
    /\ hpc = "fuse"
    /\ \E outcomes \in {{Fuse(sem_results, lex_results, order, k) :
                              order \in Orders(FusedIds(sem_results, lex_results))}} :
          fused' \in outcomes /\ other_fused' \in outcomes
    /\ hpc' = "returned"
    /\ UNCHANGED <<query, filters, effective, k, w_semantic, w_lexical, sem_results,
                   lex_results, hcalls>>
    /\ UNCHANGED <<cvars, lvars, nvars>>

HybridNext == HybridEnter \/ SemanticChannel \/ LexicalChannel \/ FuseAndReturn

SpecHybrid == HybridInit /\ [][HybridNext]_vars

----------------------------------------------------------------------------
(* Properties of the fuser *)

Returned == hpc = "returned"

FusedIdx == 1..Len(fused)

InSem(d) == \E x \in 1..Len(sem_results) : sem_results[x].doc_id = d
InLex(d) == \E x \in 1..Len(lex_results) : lex_results[x].doc_id = d

\* x is the first position of doc id d in the channel list rs
IsFirst(rs, x, d) ==
    /\ x \in 1..Len(rs)
    /\ rs[x].doc_id = d
    /\ \A y \in 1..(x - 1) : rs[y].doc_id # d

ValidWeights ==
    /\ 0 <= w_semantic /\ w_semantic <= 10
    /\ 0 <= w_lexical /\ w_lexical <= 10
    /\ w_semantic + w_lexical > 0

\* C5 (as claimed): with valid weights every returned result has score,
\* sem_score and lex_score within [0,1].
C5_ScoresWithinUnitInterval ==
    (Returned /\ ValidWeights) =>
      \A x \in FusedIdx :
        /\ 0 <= fused[x].score /\ fused[x].score <= CombinedOne
        /\ 0 <= fused[x].sem_score /\ fused[x].sem_score <= ScoreOne
        /\ 0 <= fused[x].lex_score /\ fused[x].lex_score <= ScoreOne

\* C6: at most k results, no doc id twice; when the channels hold at most k
\* distinct ids every one of them is in the output (also with score 0.0);
\* k <= 0 gives the empty list.
C6_AtMostKDistinct ==
    Returned =>
      /\ Len(fused) <= Max(k, 0)
      /\ \A x, y \in FusedIdx : x # y => fused[x].doc_id # fused[y].doc_id
      /\ (k > 0 /\ Cardinality(FusedIds(sem_results, lex_results)) <= k) =>
            {fused[x].doc_id : x \in FusedIdx} = FusedIds(sem_results, lex_results)

\* C6 witness: k distinct ids, all returned, one of them with combined score 0.0,
\* from channel lists that repeat a doc id.
C6_Witness ==
    /\ Returned
    /\ Len(fused) = k
    /\ Len(sem_results) + Len(lex_results) > k
    /\ Cardinality(FusedIds(sem_results, lex_results)) = k
    /\ \E x \in FusedIdx : fused[x].score = 0

\* the rrf score the claim defines for doc id d, over RRFDen
ClaimedRRF(d) ==
    LET part(rs) == IF \E x \in 1..Len(rs) : rs[x].doc_id = d
                    THEN LET x == CHOOSE x \in 1..Len(rs) : IsFirst(rs, x, d)
                         IN  RRFDen \div (60 + (x - 1) + 1)
                    ELSE 0
    IN  part(sem_results) + part(lex_results)

\* the key of doc id d as the claim defines it
ClaimedScore(d) ==
    LET ss == IF InSem(d) THEN sem_results[CHOOSE x \in 1..Len(sem_results) :
                                             IsFirst(sem_results, x, d)].score ELSE 0
        ls == IF InLex(d) THEN lex_results[CHOOSE x \in 1..Len(lex_results) :
                                             IsFirst(lex_results, x, d)].score ELSE 0
    IN  IF InSem(d) /\ InLex(d) THEN w_semantic * ss + w_lexical * ls
        ELSE 10 * (ss + ls)

\* C7: the output is in descending order of score, ties in descending order of
\* rrf_score = sum over the channels holding the id of 1/(60 + rank + 1); no id
\* left out by the truncation has a greater key than a returned one.
C7_OrderedByScoreThenRRF ==
    Returned =>
      /\ \A x \in FusedIdx : fused[x].rrf_score = ClaimedRRF(fused[x].doc_id)
      /\ \A x \in 1..(Len(fused) - 1) :
            \/ fused[x].score > fused[x + 1].score
            \/ /\ fused[x].score = fused[x + 1].score
               /\ fused[x].rrf_score >= fused[x + 1].rrf_score
      /\ \A d \in FusedIds(sem_results, lex_results) \ {fused[x].doc_id : x \in FusedIdx} :
            \A x \in FusedIdx :
               \/ fused[x].score > ClaimedScore(d)
               \/ /\ fused[x].score = ClaimedScore(d)
                  /\ fused[x].rrf_score >= ClaimedRRF(d)

\* C7 witness: two returned ids tie on score and differ in rrf_score, and
\* a third id is cut off by k.
C7_Witness ==
    /\ Returned
    /\ Len(fused) = 2
    /\ fused[1].score = fused[2].score
    /\ fused[1].rrf_score > fused[2].rrf_score
    /\ Cardinality(FusedIds(sem_results, lex_results)) > k

\* C8 (as claimed): for fixed channel results, k and weights the call always
\* returns the same sequence of doc ids.
C8_Deterministic ==
    Returned =>
      [x \in FusedIdx |-> fused[x].doc_id]
        = [x \in 1..Len(other_fused) |-> other_fused[x].doc_id]
\* C30 (as claimed): with weights in [0,1], of two returned ids the one whose
\* sem_score and lex_score are both at least the other's (an absent channel
\* counting as 0.0) has a combined score at least the other's, and is not
\* ranked below it on score.
C30_MonotoneInChannelScores ==
    (/\ Returned
     /\ 0 <= w_semantic /\ w_semantic <= 10
     /\ 0 <= w_lexical /\ w_lexical <= 10) =>
      \A x, y \in FusedIdx :
        (/\ fused[x].sem_score >= fused[y].sem_score
         /\ fused[x].lex_score >= fused[y].lex_score) =>
           /\ fused[x].score >= fused[y].score
           /\ y < x => fused[x].score = fused[y].score

----------------------------------------------------------------------------
(***************************************************************************)
(* lexical_search (indexer.py).  A string is a sequence of one-character   *)
(* strings.  An optional value is <<>> (None) or <<v>>.  A lexical score   *)
(* is fixed-point, an integer number of 1/10000; the term and regex        *)
(* weights are counted in halves.                                          *)
(***************************************************************************)

\* bound of the model: the largest number of chunks in the collection
MaxStore == 2

\* indexer.py:21-27
LEX_W_TERM == 2
LEX_W_REGEX == 3
LEX_TERM_CAP == 3
LEX_REGEX_CAP == 3
LEX_PATH_ONLY_BASELINE == 2500
LEX_PATH_FETCH_MULTIPLIER == 10

LexOne == 100 * 100

\* the documents of the stored chunks: "", "Ab", "b", "aaaa"
Documents == {<<>>, <<"A", "b">>, <<"b">>, <<"a", "a", "a", "a">>}

\* the metadata of the stored chunks: complete (doc_id "d", source_path "Sx"
\* or "l") or empty
Metas == {[doc_id |-> Some(<<"d">>), source_path |-> Some(<<"S", "x">>)],
          [doc_id |-> Some(<<"d">>), source_path |-> Some(<<"l">>)],
          [doc_id |-> NoneOpt, source_path |-> NoneOpt]}

StoredChunks == {[document |-> d, meta |-> m] : d \in Documents, m \in Metas}

\* must_terms of the requests: none, ["a"], [" A", "b", "A"]
TermInputs == {<<>>, << <<"a">> >>, << <<" ", "A">>, <<"b">>, <<"A">> >>}

\* the pattern a{99999999999}; its repetition count is one token
OverflowPattern == <<"a", "{99999999999}">>

\* regexes of the requests: none, ["("], ["b*"], ["(", "b*", "a"],
\* ["a{99999999999}"]
RegexInputs == {<<>>, << <<"(">> >>, << <<"b", "*">> >>,
                << <<"(">>, <<"b", "*">>, <<"a">> >>,
                << OverflowPattern >>}

\* path_like of the requests: None, " ", "s"
PathInputs == {NoneOpt, Some(<<" ">>), Some(<<"s">>)}

\* str.lower() on the characters in use
LowerChar(c) ==
    CASE c = "A" -> "a" [] c = "B" -> "b" [] c = "S" -> "s" [] OTHER -> c

Lower(str) == [x \in 1..Len(str) |-> LowerChar(str[x])]

\* sub occurs in str at position x (1-based)
OccursAt(str, sub, x) ==
    /\ x + Len(sub) - 1 <= Len(str)
    /\ \A y \in 1..Len(sub) : str[x + y - 1] = sub[y]

\* str.count(sub) for a non-empty sub: non-overlapping occurrences from the left
RECURSIVE CountFrom(_, _, _)
CountFrom(str, sub, x) ==
    IF x + Len(sub) - 1 > Len(str) THEN 0
    ELSE IF OccursAt(str, sub, x) THEN 1 + CountFrom(str, sub, x + Len(sub))
    ELSE CountFrom(str, sub, x + 1)

Count(str, sub) == CountFrom(str, sub, 1)

\* sub in str
Contains(str, sub) == \E x \in 1..(Len(str) + 1) : OccursAt(str, sub, x)

InSeq(xs, v) == \E x \in 1..Len(xs) : xs[x] = v

\* indexer.py:133-147
RECURSIVE SanitizeFrom(_, _)
SanitizeFrom(xs, out) ==
    IF xs = <<>> THEN out
    ELSE LET t == Strip(Head(xs))
         IN  IF Head(xs) = <<>> \/ t = <<>> \/ InSeq(out, t)
             THEN SanitizeFrom(Tail(xs), out)
             ELSE SanitizeFrom(Tail(xs), Append(out, t))

_sanitize_list(xs) == SanitizeFrom(xs, <<>>)

\* re.compile raises re.error: the pattern "(" is the invalid one
IsValidRegex(raw) == raw # <<"(">>

\* re.compile raises OverflowError ("the repetition number is too large"),
\* which is not an re.error
CompileOverflows(raw) == raw = OverflowPattern

\* the pattern "x*" matches a possibly empty run of x; any other valid pattern
\* in use is a literal
IsStar(raw) == Len(raw) = 2 /\ raw[2] = "*"

\* indexer.py:197-207: the valid patterns, in order
RECURSIVE _compile_regexes(_)
_compile_regexes(raws) ==
    IF raws = <<>> THEN <<>>
    ELSE IF IsValidRegex(Head(raws))
         THEN <<Head(raws)>> \o _compile_regexes(Tail(raws))
         ELSE _compile_regexes(Tail(raws))

\* number of maximal non-empty runs of character c in str
RECURSIVE RunsFrom(_, _, _)
RunsFrom(str, c, x) ==
    IF x > Len(str) THEN 0
    ELSE (IF str[x] = c /\ (x = 1 \/ str[x - 1] # c) THEN 1 ELSE 0) + RunsFrom(str, c, x + 1)

\* a plausible slip: zero-length matches are counted too
NonEmptyMatches_CountEmpty(raw, doc_str) ==
    IF IsStar(raw)
    THEN Len(doc_str) + 1
    ELSE Count(Lower(doc_str), Lower(raw))

\* indexer.py:249-252: matches of pat.finditer(doc_str) with m.end() > m.start(),
\* the pattern compiled with re.IGNORECASE
NonEmptyMatches(raw, doc_str) ==
    IF IsStar(raw)
    THEN RunsFrom(Lower(doc_str), LowerChar(raw[1]), 1)
    ELSE Count(Lower(doc_str), Lower(raw))

RECURSIVE SumSeq(_)
SumSeq(xs) == IF xs = <<>> THEN 0 ELSE Head(xs) + SumSeq(Tail(xs))

\* a plausible slip: the hit counts are summed uncapped
Capped_Uncapped(hits, cap) == hits

\* indexer.py:257-258
Capped(hits, cap) == [x \in 1..Len(hits) |-> Min(hits[x], cap)]

\* dict.get(key, 0) on a list of <<key, count>> pairs
RECURSIVE Get(_, _)
Get(pairs, key) ==
    IF pairs = <<>> THEN 0
    ELSE IF Head(pairs)[1] = key THEN Head(pairs)[2]
    ELSE Get(Tail(pairs), key)

\* indexer.py:277-279: (raw / max_raw) / (1 + 0.2 * log1p(len / 1000)), clamped
\* to [0,1]; log1p(x) is taken as x, its value to within 1/10000 for the
\* document lengths in use
NormalizedScore(raw, max_raw, doc_len) ==
    Max(0, Min((raw * 5000 * LexOne) \div (max_raw * (5000 + doc_len)), LexOne))

\* indexer.py:223-290
_compute_lexical_score(doc_str, terms, compiled_patterns) ==
    LET term_hits_list == [x \in 1..Len(terms) |-> Count(Lower(doc_str), Lower(terms[x]))]
        regex_hits_list == [x \in 1..Len(compiled_patterns) |->
                                NonEmptyMatches(compiled_patterns[x], doc_str)]
        raw == LEX_W_TERM * SumSeq(Capped(term_hits_list, LEX_TERM_CAP))
                 + LEX_W_REGEX * SumSeq(Capped(regex_hits_list, LEX_REGEX_CAP))
        max_raw == LEX_W_TERM * (Len(terms) * LEX_TERM_CAP)
                     + LEX_W_REGEX * (Len(compiled_patterns) * LEX_REGEX_CAP)
    IN  IF max_raw <= 0
        THEN [score |-> 0, term_hits |-> 0, regex_hits |-> 0, doc_len |-> Len(doc_str),
              per_term |-> <<>>, per_regex |-> <<>>, raw |-> 0, max_raw |-> 0]
        ELSE [score |-> NormalizedScore(raw, max_raw, Len(doc_str)),
              term_hits |-> SumSeq(term_hits_list),
              regex_hits |-> SumSeq(regex_hits_list),
              doc_len |-> Len(doc_str),
              per_term |-> [x \in 1..Len(terms) |-> <<terms[x], term_hits_list[x]>>],
              per_regex |-> [x \in 1..Len(compiled_patterns) |->
                                <<compiled_patterns[x], regex_hits_list[x]>>],
              raw |-> raw, max_raw |-> max_raw]

\* a plausible slip: one matching term is enough
FiltersSatisfied_AnyTerm(metrics, terms, compiled) ==
    /\ terms = <<>> \/ \E x \in 1..Len(terms) : Get(metrics.per_term, terms[x]) > 0
    /\ compiled = <<>> \/ \E x \in 1..Len(compiled) : Get(metrics.per_regex, compiled[x]) > 0

\* indexer.py:293-320
_filters_satisfied(metrics, terms, compiled) ==
    /\ terms = <<>> \/ \A x \in 1..Len(terms) : Get(metrics.per_term, terms[x]) > 0
    /\ compiled = <<>> \/ \E x \in 1..Len(compiled) : Get(metrics.per_regex, compiled[x]) > 0

\* indexer.py:442-449: the effective filters of the request
Terms == _sanitize_list(must_terms)
CompiledPatterns == _compile_regexes(_sanitize_list(regexes))
PL == IF IsNone(path_like) \/ Val(path_like) = <<>> THEN NoneOpt
      ELSE IF Strip(Val(path_like)) = <<>> THEN NoneOpt
      ELSE Some(Strip(Val(path_like)))

\* indexer.py:201-206: an exception of re.compile other than re.error is not
\* caught and leaves _compile_regexes and lexical_search
CompileRaises ==
    \E x \in 1..Len(_sanitize_list(regexes)) : CompileOverflows(_sanitize_list(regexes)[x])

\* indexer.py:150-182: None when there is neither a term nor a regex
HasWhereDocument == Terms # <<>> \/ CompiledPatterns # <<>>

\* the collection's own filter: $contains is a case-sensitive substring test,
\* $regex a case-sensitive search (which an empty match satisfies); the terms
\* are ANDed, the patterns ORed; the filter is built once per call
\* (indexer.py:454)
StoreRegexMatches(raw, doc) == IF IsStar(raw) THEN TRUE ELSE Contains(doc, raw)

StoreWhereDocument(doc) ==
    \E terms \in {Terms}, compiled \in {CompiledPatterns} :
       /\ \A x \in 1..Len(terms) : Contains(doc, terms[x])
       /\ compiled = <<>>
            \/ \E x \in 1..Len(compiled) : StoreRegexMatches(compiled[x], doc)

\* the stored chunks as candidates: id, document, metadata
Candidate(x) == [id |-> x, document |-> code[x].document, meta |-> code[x].meta]

\* the elements of xs at the positions in S, in order
RECURSIVE SelectFrom(_, _, _)
SelectFrom(xs, S, x) ==
    IF x > Len(xs) THEN <<>>
    ELSE (IF x \in S THEN <<xs[x]>> ELSE <<>>) \o SelectFrom(xs, S, x + 1)

\* code.get(where_document=..., limit=n): up to n of the chunks that pass the
\* document filter (if one is given), in storage order
GetResponses(with_filter, n) ==
    LET matching == {x \in 1..Len(code) :
                        with_filter => StoreWhereDocument(code[x].document)}
        all == [x \in 1..Len(code) |-> Candidate(x)]
    IN  {SelectFrom(all, S, 1) :
            S \in {T \in SUBSET matching : Cardinality(T) = Min(n, Cardinality(matching))}}

\* indexer.py:465
FetchLimit == IF ~IsNone(PL) THEN lk * LEX_PATH_FETCH_MULTIPLIER ELSE lk

\* a lexical result; id is the storage id of the candidate it was built from
\* (not a key of the result dict: it relates the result to its candidate)
LexResult(c, source_path, score, why, cats, raw_hits, doc_len) ==
    [id |-> c.id,
     doc_id |-> IF IsNone(c.meta.doc_id) \/ Val(c.meta.doc_id) = <<>>
                THEN <<"c", c.id>> ELSE Val(c.meta.doc_id),
     source_path |-> source_path, score |-> score, why |-> why,
     cats |-> cats, raw_hits |-> raw_hits, doc_len |-> doc_len]

\* the hits of a per_term / per_regex map as why entries
RECURSIVE WhyHits(_, _)
WhyHits(kind, pairs) ==
    IF pairs = <<>> THEN <<>>
    ELSE (IF Head(pairs)[2] > 0 THEN << <<kind, Head(pairs)[1], Head(pairs)[2]>> >> ELSE <<>>)
           \o WhyHits(kind, Tail(pairs))

AnyHit(pairs) == \E x \in 1..Len(pairs) : pairs[x][2] > 0

\* indexer.py:513-519: [skip, path_matched] for one candidate; the path test
\* is made only when source_path is a string
PathCheck(pl, source_path) ==
    IF ~IsNone(pl) /\ ~IsNone(source_path)
    THEN LET m == Contains(Lower(Val(source_path)), Lower(Val(pl)))
         IN  [skip |-> ~m, path_matched |-> m]
    ELSE [skip |-> FALSE, path_matched |-> FALSE]

\* indexer.py:503-585: the loop over the candidates from position x
RECURSIVE Assemble(_, _, _)
Assemble(cands, x, results) ==
    IF x > Len(cands) THEN results
    ELSE LET c == cands[x]
             source_path == c.meta.source_path
             pc == PathCheck(PL, source_path)
             m == _compute_lexical_score(c.document, Terms, CompiledPatterns)
             path_only == pc.path_matched /\ Terms = <<>> /\ CompiledPatterns = <<>>
             lex_score == IF path_only /\ m.score < LEX_PATH_ONLY_BASELINE
                          THEN LEX_PATH_ONLY_BASELINE ELSE m.score
             why == WhyHits("term", m.per_term) \o WhyHits("regex", m.per_regex)
                      \o (IF pc.path_matched THEN << <<"path", Val(PL), Val(source_path)>> >>
                          ELSE <<>>)
                      \o (IF path_only THEN << <<"baseline", LEX_PATH_ONLY_BASELINE>> >>
                          ELSE <<>>)
             cats == (IF pc.path_matched THEN 1 ELSE 0)
                       + (IF AnyHit(m.per_term) THEN 1 ELSE 0)
                       + (IF AnyHit(m.per_regex) THEN 1 ELSE 0)
         IN  IF pc.skip THEN Assemble(cands, x + 1, results)
             ELSE IF (Terms # <<>> \/ CompiledPatterns # <<>>)
                      /\ ~_filters_satisfied(m, Terms, CompiledPatterns)
                  THEN Assemble(cands, x + 1, results)
             ELSE Assemble(cands, x + 1,
                           Append(results,
                                  LexResult(c, source_path, lex_score, why, cats,
                                            m.term_hits + m.regex_hits, m.doc_len)))

\* a plausible slip: ties on score are left in candidate order
LexKeyGreater_ScoreOnly(a, b) == a.score > b.score

\* indexer.py:588-596: the sort key (score, _cats, _raw_hits, -_doc_len)
LexKeyGreater(a, b) ==
    \/ a.score > b.score
    \/ a.score = b.score /\ a.cats > b.cats
    \/ a.score = b.score /\ a.cats = b.cats /\ a.raw_hits > b.raw_hits
    \/ a.score = b.score /\ a.cats = b.cats /\ a.raw_hits = b.raw_hits
         /\ a.doc_len < b.doc_len

RECURSIVE LexInsertDesc(_, _)
LexInsertDesc(sorted, r) ==
    IF sorted = <<>> THEN <<r>>
    ELSE IF LexKeyGreater(r, Head(sorted)) THEN <<r>> \o sorted
    ELSE <<Head(sorted)>> \o LexInsertDesc(Tail(sorted), r)

\* results.sort(key=..., reverse=True), a stable sort
RECURSIVE LexSortDesc(_)
LexSortDesc(rs) ==
    IF rs = <<>> THEN <<>>
    ELSE LexInsertDesc(LexSortDesc(SubSeq(rs, 1, Len(rs) - 1)), rs[Len(rs)])

\* indexer.py:600-603: the ephemeral keys are removed
StripKeys(rs) ==
    [x \in 1..Len(rs) |-> [id |-> rs[x].id, doc_id |-> rs[x].doc_id,
                           source_path |-> rs[x].source_path,
                           score |-> rs[x].score, why |-> rs[x].why]]

LexicalInit ==
    /\ ChunkIdle
    /\ HybridIdle
    /\ ScoreIdle /\ SemanticIdle /\ MergeIdle /\ EmbedIdle /\ OtherIdle
    /\ lgets = 0
    /\ code \in SeqsUpTo(StoredChunks, MaxStore)
    /\ must_terms \in TermInputs
    /\ regexes \in RegexInputs
    /\ path_like \in PathInputs
    /\ lk \in 0..MaxK
    /\ res = <<>>
    /\ used_fallback = FALSE
    /\ lex_out = <<>>
    /\ lpc = "call"

\* indexer.py:439-453: k <= 0 or no effective filter returns []
LexEnter ==
    /\ lpc = "call"
    /\ IF lk <= 0
       THEN lpc' = "returned"
       ELSE IF CompileRaises
            THEN lpc' = "raised"
            ELSE IF Terms = <<>> /\ CompiledPatterns = <<>> /\ IsNone(PL)
                 THEN lpc' = "returned"
                 ELSE lpc' = "fetch"
    /\ UNCHANGED <<code, must_terms, regexes, path_like, lk, res, used_fallback, lex_out,
                   lgets>>
    /\ UNCHANGED <<cvars, hvars, nvars>>

\* indexer.py:468-477: the filtered fetch; a backend without $contains/$regex
\* support answers a filtered fetch with nothing
LexFetch ==
    /\ lpc = "fetch"
    /\ \E filtered \in {HasWhereDocument} :
          /\ \/ res' \in GetResponses(filtered, FetchLimit)
             \/ filtered /\ res' = <<>>
          /\ lpc' = IF res' = <<>> /\ filtered THEN "fallback" ELSE "assemble"
    /\ lgets' = lgets + 1
    /\ UNCHANGED <<code, must_terms, regexes, path_like, lk, used_fallback, lex_out>>
    /\ UNCHANGED <<cvars, hvars, nvars>>

\* indexer.py:477-493: the broad fetch without document filter
LexFallbackFetch ==
    /\ lpc = "fallback"
    /\ res' \in GetResponses(FALSE, Min(5000, FetchLimit * 10))
    /\ used_fallback' = TRUE
    /\ lgets' = lgets + 1
    /\ lpc' = "assemble"
    /\ UNCHANGED <<code, must_terms, regexes, path_like, lk, lex_out>>
    /\ UNCHANGED <<cvars, hvars, nvars>>

\* indexer.py:496-605: the candidates are filtered and scored, the results
\* sorted, cut to k and returned
LexAssemble ==
    /\ lpc = "assemble"
    /\ lex_out' = StripKeys(Truncate(LexSortDesc(Assemble(res, 1, <<>>)), lk))
    /\ lpc' = "returned"
    /\ UNCHANGED <<code, must_terms, regexes, path_like, lk, res, used_fallback, lgets>>
    /\ UNCHANGED <<cvars, hvars, nvars>>

LexicalNext == LexEnter \/ LexFetch \/ LexFallbackFetch \/ LexAssemble

SpecLexical == LexicalInit /\ [][LexicalNext]_vars

----------------------------------------------------------------------------
(* Properties of the lexical channel *)

LexReturned == lpc = "returned"

LexIdx == 1..Len(lex_out)

\* the stored document a result was built from
DocOf(r) == code[r.id].document

\* the stripped, non-empty strings of a request list
Given(xs) == {Strip(xs[x]) : x \in 1..Len(xs)} \ {<<>>}

ValidGiven == {raw \in Given(regexes) : raw # <<"(">>}

\* pattern raw has a non-empty match in doc, case-insensitively
HasNonEmptyMatch(raw, doc) ==
    IF Len(raw) = 2 /\ raw[2] = "*"
    THEN \E x \in 1..Len(doc) : LowerChar(doc[x]) = LowerChar(raw[1])
    ELSE \E x \in 1..Len(doc) : OccursAt(Lower(doc), Lower(raw), x)

\* C9: for a request with a term or a valid regex, every returned result's
\* document holds every must_term (case-insensitively) and, if a valid regex
\* was given, has a non-empty match of at least one of them; whether the
\* candidates came from the filtered or from the fallback fetch.
C9_ResultsSatisfyFilters ==
    (LexReturned /\ (Given(must_terms) # {} \/ ValidGiven # {})) =>
      \A x \in LexIdx :
        /\ \A t \in Given(must_terms) :
              \E y \in 1..Len(DocOf(lex_out[x])) :
                 OccursAt(Lower(DocOf(lex_out[x])), Lower(t), y)
        /\ ValidGiven # {} =>
              \E raw \in ValidGiven : HasNonEmptyMatch(raw, DocOf(lex_out[x]))

\* C9 witness: terms and a valid regex were given, the filtered fetch came
\* back empty, and of the candidates of the fallback fetch one is returned
\* and another one is dropped by the filter check alone.
C9_Witness ==
    /\ LexReturned
    /\ used_fallback
    /\ Given(must_terms) # {} /\ ValidGiven # {}
    /\ IsNone(PL)
    /\ Len(res) <= lk
    /\ lex_out # <<>>
    /\ Len(lex_out) < Len(res)

\* C10 (as claimed): with a non-blank path_like every returned result has a
\* source_path that holds path_like case-insensitively; a candidate without
\* source_path is never returned.
C10_ResultsMatchPath ==
    (LexReturned /\ ~IsNone(path_like) /\ Strip(Val(path_like)) # <<>>) =>
      \A x \in LexIdx :
        /\ ~IsNone(lex_out[x].source_path)
        /\ \E y \in 1..Len(Val(lex_out[x].source_path)) :
              OccursAt(Lower(Val(lex_out[x].source_path)), Lower(Strip(Val(path_like))), y)

\* the request is a path-only query: an effective path_like, no term and no
\* valid regex
PathOnlyRequest ==
    /\ ~IsNone(path_like) /\ Strip(Val(path_like)) # <<>>
    /\ Given(must_terms) = {}
    /\ ValidGiven = {}

\* C11 (as claimed): every result of a path-only query has score >= 0.25 and
\* its why list holds the baseline-applied message.
C11_PathOnlyBaseline ==
    (LexReturned /\ PathOnlyRequest) =>
      \A x \in LexIdx :
        /\ lex_out[x].score >= LEX_PATH_ONLY_BASELINE
        /\ InSeq(lex_out[x].why, <<"baseline", LEX_PATH_ONLY_BASELINE>>)

----------------------------------------------------------------------------
(***************************************************************************)
(* _compute_lexical_score (indexer.py), called on its own.                 *)
(***************************************************************************)

\* doc_str of the calls: "", "Ab", "aaab", "aaaa", "aaaaa", "abab"
ScoreDocs == {<<>>, <<"A", "b">>, <<"a", "a", "a", "b">>, <<"a", "a", "a", "a">>,
              <<"a", "a", "a", "a", "a">>, <<"a", "b", "a", "b">>}

\* terms of the calls (sanitized lists): [], ["a"], ["a", "b"], ["Ab"], ["A", "c"]
ScoreTermLists == {<<>>, << <<"a">> >>, << <<"a">>, <<"b">> >>, << <<"A", "b">> >>,
                   << <<"A">>, <<"c">> >>}

\* compiled_patterns of the calls: [], ["b*"], ["a"], ["b*", "a"], ["a*"]
ScorePatternLists == {<<>>, << <<"b", "*">> >>, << <<"a">> >>,
                      << <<"b", "*">>, <<"a">> >>, << <<"a", "*">> >>}

ScoreInit ==
    /\ ChunkIdle /\ HybridIdle /\ LexicalIdle
    /\ SemanticIdle /\ MergeIdle /\ EmbedIdle /\ OtherIdle
    /\ sc_doc_str \in ScoreDocs
    /\ sc_terms \in ScoreTermLists
    /\ sc_patterns \in ScorePatternLists
    /\ sc_result = NoneOpt
    /\ scpc = "call"

\* indexer.py:223-290
ScoreCall ==
    /\ scpc = "call"
    /\ sc_result' = Some(_compute_lexical_score(sc_doc_str, sc_terms, sc_patterns))
    /\ scpc' = "returned"
    /\ UNCHANGED <<sc_doc_str, sc_terms, sc_patterns>>
    /\ UNCHANGED <<cvars, hvars, lvars, smvars, mvars, evars, ovars>>

ScoreNext == ScoreCall

SpecScore == ScoreInit /\ [][ScoreNext]_vars

----------------------------------------------------------------------------
(* Properties of the lexical score *)

ScoreReturned == scpc = "returned"

\* occurrences of term t in doc, case-insensitively (the terms in use cannot
\* overlap themselves)
TermHits(doc, t) ==
    Cardinality({x \in 1..Len(doc) : OccursAt(Lower(doc), Lower(t), x)})

\* non-empty matches of pattern raw in doc, case-insensitively: the maximal
\* runs for "x*", the occurrences for a literal
PatternHits(doc, raw) ==
    IF Len(raw) = 2 /\ raw[2] = "*"
    THEN Cardinality({x \in 1..Len(doc) :
                        /\ LowerChar(doc[x]) = LowerChar(raw[1])
                        /\ (x = 1 \/ LowerChar(doc[x - 1]) # LowerChar(raw[1]))})
    ELSE TermHits(doc, raw)

\* sum of f over the positions of a list
RECURSIVE SumUpTo(_, _)
SumUpTo(f, n) == IF n = 0 THEN 0 ELSE f[n] + SumUpTo(f, n - 1)

\* raw as the claim defines it, in halves: 1.0 * capped term hits + 1.5 * capped
\* regex hits
ClaimedRaw(doc) ==
    2 * SumUpTo([x \in 1..Len(sc_terms) |-> Min(TermHits(doc, sc_terms[x]), 3)],
                Len(sc_terms))
      + 3 * SumUpTo([x \in 1..Len(sc_patterns) |-> Min(PatternHits(doc, sc_patterns[x]), 3)],
                    Len(sc_patterns))

\* max_raw as the claim defines it, in halves
ClaimedMaxRaw == 2 * 3 * Len(sc_terms) + 3 * 3 * Len(sc_patterns)

NoHit(doc) ==
    /\ \A x \in 1..Len(sc_terms) : TermHits(doc, sc_terms[x]) = 0
    /\ \A x \in 1..Len(sc_patterns) : PatternHits(doc, sc_patterns[x]) = 0

\* C12: the score is in [0,1]; the capped weighted raw score is at most
\* max_raw = 1.0*3*|terms| + 1.5*3*|patterns|; the score is 0 when max_raw is 0
\* and when no term and no pattern has a hit.
C12_ScoreWithinUnitInterval ==
    ScoreReturned =>
      LET m == Val(sc_result) IN
        /\ 0 <= m.score /\ m.score <= LexOne
        /\ m.raw <= ClaimedMaxRaw
        /\ ClaimedRaw(sc_doc_str) <= ClaimedMaxRaw
        /\ ClaimedMaxRaw > 0 => m.max_raw = ClaimedMaxRaw
        /\ ClaimedMaxRaw = 0 => m.score = 0
        /\ NoHit(sc_doc_str) => m.score = 0

\* C12 witness: a call where a cap is active, raw reaches max_raw and the
\* score is positive.
C12_Witness ==
    /\ ScoreReturned
    /\ \E x \in 1..Len(sc_terms) : TermHits(sc_doc_str, sc_terms[x]) > 3
    /\ Val(sc_result).raw = ClaimedMaxRaw
    /\ Val(sc_result).score > 0

\* the capped hit counts of doc for the terms and patterns of the call
CappedProfile(doc) ==
    <<[x \in 1..Len(sc_terms) |-> Min(TermHits(doc, sc_terms[x]), 3)],
      [x \in 1..Len(sc_patterns) |-> Min(PatternHits(doc, sc_patterns[x]), 3)]>>

TotalTermHits(doc) ==
    SumUpTo([x \in 1..Len(sc_terms) |-> TermHits(doc, sc_terms[x])], Len(sc_terms))

TotalPatternHits(doc) ==
    SumUpTo([x \in 1..Len(sc_patterns) |-> PatternHits(doc, sc_patterns[x])],
            Len(sc_patterns))

\* C13: raw = 1.0 * sum of min(term hits, 3) + 1.5 * sum of min(regex hits, 3);
\* a document of the same length whose hit counts differ only above the cap
\* gets the same raw and the same score; term_hits and regex_hits are the
\* uncapped totals.
C13_ContributionsCapped ==
    (ScoreReturned /\ ClaimedMaxRaw > 0) =>
      LET m == Val(sc_result) IN
        /\ m.raw = ClaimedRaw(sc_doc_str)
        /\ m.term_hits = TotalTermHits(sc_doc_str)
        /\ m.regex_hits = TotalPatternHits(sc_doc_str)
        /\ \A d2 \in ScoreDocs :
              (Len(d2) = Len(sc_doc_str) /\ CappedProfile(d2) = CappedProfile(sc_doc_str)) =>
                 LET m2 == _compute_lexical_score(d2, sc_terms, sc_patterns)
                 IN  m2.raw = m.raw /\ m2.score = m.score

\* C13 witness: the call's document has more than 3 hits of a term, a document
\* of the same length has exactly 3, and the reported term_hits differ.
C13_Witness ==
    /\ ScoreReturned
    /\ \E x \in 1..Len(sc_terms) : TermHits(sc_doc_str, sc_terms[x]) > 3
    /\ \E d2 \in ScoreDocs :
          /\ d2 # sc_doc_str
          /\ Len(d2) = Len(sc_doc_str)
          /\ CappedProfile(d2) = CappedProfile(sc_doc_str)
          /\ \E x \in 1..Len(sc_terms) : TermHits(d2, sc_terms[x]) = 3
          /\ _compute_lexical_score(d2, sc_terms, sc_patterns).term_hits
               # Val(sc_result).term_hits

----------------------------------------------------------------------------
(* Order of the lexical results *)

\* total of the non-empty, case-insensitive matches of the strings in S in doc
RECURSIVE HitsOver(_, _)
HitsOver(S, doc) ==
    IF S = {} THEN 0
    ELSE LET raw == CHOOSE raw \in S : TRUE
         IN  PatternHits(doc, raw) + HitsOver(S \ {raw}, doc)

\* the sort key of result r as the claim defines it: score, number of matched
\* categories among path/terms/regex, total uncapped hits, -document length
ClaimedKey(r) ==
    LET path_hit == /\ ~IsNone(path_like) /\ Strip(Val(path_like)) # <<>>
                    /\ ~IsNone(r.source_path)
                    /\ \E y \in 1..Len(Val(r.source_path)) :
                          OccursAt(Lower(Val(r.source_path)),
                                   Lower(Strip(Val(path_like))), y)
        term_hits == HitsOver(Given(must_terms), DocOf(r))
        regex_hits == HitsOver(ValidGiven, DocOf(r))
    IN  <<r.score,
          (IF path_hit THEN 1 ELSE 0) + (IF term_hits > 0 THEN 1 ELSE 0)
             + (IF regex_hits > 0 THEN 1 ELSE 0),
          term_hits + regex_hits,
          0 - Len(DocOf(r))>>

\* lexicographic >= on keys of four numbers
KeyGeq(a, b) ==
    \/ a[1] > b[1]
    \/ a[1] = b[1] /\ a[2] > b[2]
    \/ a[1] = b[1] /\ a[2] = b[2] /\ a[3] > b[3]
    \/ a[1] = b[1] /\ a[2] = b[2] /\ a[3] = b[3] /\ a[4] >= b[4]

\* C14: at most k results; any two adjacent results are in descending order of
\* the key (score, matched categories, uncapped hits, shorter document first).
C14_OrderedByKey ==
    LexReturned =>
      /\ Len(lex_out) <= Max(lk, 0)
      /\ \A x \in 1..(Len(lex_out) - 1) :
            KeyGeq(ClaimedKey(lex_out[x]), ClaimedKey(lex_out[x + 1]))

\* C14 witness: k results are returned, two of which tie on score and are
\* ordered by a later component of the key, the better one stored second.
C14_Witness ==
    /\ LexReturned
    /\ lk = 2 /\ Len(lex_out) = 2
    /\ lex_out[1].score = lex_out[2].score
    /\ ClaimedKey(lex_out[1]) # ClaimedKey(lex_out[2])
    /\ lex_out[1].id > lex_out[2].id

----------------------------------------------------------------------------
(***************************************************************************)
(* semantic_search (indexer.py).  A distance is fixed-point, an integer    *)
(* number of hundredths, like the channel scores.                          *)
(***************************************************************************)

\* the distances of the stored summaries to the query: -1.0, -0.5, 0.0, 0.25,
\* 1.0, 3.0 (their scores are whole hundredths)
Distances == {0 - ScoreOne, 0 - 50, 0, 25, ScoreOne, 3 * ScoreOne}

\* a plausible slip: the score falls linearly with the distance
DistanceToScore_Linear(d) ==
    IF IsNone(d) THEN 0 ELSE Max(0, ScoreOne - Max(Val(d), 0))

\* indexer.py:373-384: 0.0 for None, else 1/(1 + max(d, 0))
_distance_to_score(d) ==
    IF IsNone(d) THEN 0 ELSE (ScoreOne * ScoreOne) \div (ScoreOne + Max(Val(d), 0))

\* a stored summary as the query sees it: its id, the doc_id of its metadata
\* (if any), its distance to the query vector
Summary(id, doc_id, dist) == [id |-> id, doc_id |-> doc_id, dist |-> dist]

Summaries ==
    {Summary(id, d, dist) : id \in DocIds, d \in {NoneOpt, Some("d")}, dist \in Distances}

\* summaries.query returns the nearest entries first; the ids of a collection
\* are unique
NearestFirst(ss) ==
    /\ \A x \in 1..(Len(ss) - 1) : ss[x].dist <= ss[x + 1].dist
    /\ \A x, y \in 1..Len(ss) : x # y => ss[x].id # ss[y].id

\* indexer.py:669-701: the result built from the i-th entry of the response
SemResult(q, entry, dists0, i) ==
    LET dist == IF i <= Len(dists0) THEN Some(dists0[i]) ELSE NoneOpt
    IN  [doc_id |-> IF IsNone(entry.doc_id) \/ Val(entry.doc_id) = "" THEN entry.id
                    ELSE Val(entry.doc_id),
         score |-> _distance_to_score(dist),
         why |-> << <<"semantic", q>> >>
                   \o (IF IsNone(dist) THEN <<>> ELSE << <<"distance", Val(dist)>> >>)]

SemanticInit ==
    /\ ChunkIdle /\ HybridIdle /\ LexicalIdle
    /\ ScoreIdle /\ MergeIdle /\ EmbedIdle /\ OtherIdle
    /\ sq \in Queries
    /\ sk \in 0..MaxK
    /\ summaries \in {ss \in SeqsUpTo(Summaries, MaxStore) : NearestFirst(ss)}
    /\ sem_out = <<>>
    /\ sem_err = ""
    /\ scalls = {}
    /\ smpc = "call"

\* indexer.py:631-635: a blank query or k <= 0 returns [] at once; otherwise
\* the collections are opened
SemEnter ==
    /\ smpc = "call"
    /\ IF Strip(sq) = <<>> \/ sk <= 0
       THEN smpc' = "returned" /\ UNCHANGED scalls
       ELSE smpc' = "embed" /\ scalls' = scalls \cup {"collections"}
    /\ UNCHANGED <<sq, sk, summaries, sem_out, sem_err>>
    /\ UNCHANGED <<cvars, hvars, lvars, scvars, mvars, evars, ovars>>

\* indexer.py:638-650: the query is embedded; a failure is re-raised as a
\* ValueError whose message depends on the failure's text; no vector gives []
SemEmbed ==
    /\ smpc = "embed"
    /\ scalls' = scalls \cup {"embed"}
    /\ \E outcome \in {"ok", "no_vectors", "api_key_error", "other_error"} :
          /\ smpc' = CASE outcome = "ok" -> "query"
                       [] outcome = "no_vectors" -> "returned"
                       [] OTHER -> "value_error"
          /\ sem_err' = CASE outcome = "api_key_error" -> "embed: OPENAI_API_KEY"
                          [] outcome = "other_error" -> "embed"
                          [] OTHER -> sem_err
    /\ UNCHANGED <<sq, sk, summaries, sem_out>>
    /\ UNCHANGED <<cvars, hvars, lvars, scvars, mvars, evars, ovars>>

\* indexer.py:652-703: the n_results=k nearest summaries are fetched and turned
\* into results; a failure of the query is re-raised as a ValueError
SemQuery ==
    /\ smpc = "query"
    /\ scalls' = scalls \cup {"query"}
    /\ \/ /\ smpc' = "value_error"
          /\ sem_err' = "query"
          /\ UNCHANGED sem_out
       \/ LET ids0 == SubSeq(summaries, 1, Min(Len(summaries), sk))
              dists0 == [x \in 1..Len(ids0) |-> ids0[x].dist]
          IN  /\ sem_out' = [x \in 1..Len(ids0) |-> SemResult(Strip(sq), ids0[x], dists0, x)]
              /\ smpc' = "returned"
              /\ UNCHANGED sem_err
    /\ UNCHANGED <<sq, sk, summaries>>
    /\ UNCHANGED <<cvars, hvars, lvars, scvars, mvars, evars, ovars>>

SemanticNext == SemEnter \/ SemEmbed \/ SemQuery

SpecSemantic == SemanticInit /\ [][SemanticNext]_vars

----------------------------------------------------------------------------
(* Properties of the semantic channel *)

SemReturned == smpc = "returned"

SemIdx == 1..Len(sem_out)

----------------------------------------------------------------------------
(***************************************************************************)
(* The loop body of hybrid_search (indexer.py:790-830) for one doc id,     *)
(* over channel results that carry their auxiliary fields.                 *)
(***************************************************************************)

\* page_uris of the channel results: _parse_meta_list gives distinct,
\* non-empty strings
PageUriLists == {<<>>, <<"u1">>, <<"u1", "u2">>, <<"u2", "u3">>}

\* metadata of the channel results (one normalized key is kept)
Metadatas == {[language |-> NoneOpt], [language |-> Some("py")]}

\* the results semantic_search returns for doc id "a" (indexer.py:690-700):
\* line_start and line_end are None
SemMatches ==
    {[doc_id |-> "a", score |-> 50, source_path |-> sp, page_uris |-> us,
      line_start |-> NoneOpt, line_end |-> NoneOpt,
      why |-> << <<"semantic", "q">>, <<"distance", ScoreOne>> >>, metadata |-> md] :
        sp \in {NoneOpt, Some("s.py")}, us \in PageUriLists, md \in Metadatas}

\* the results lexical_search returns for doc id "a" (indexer.py:570-585)
LexMatches ==
    {[doc_id |-> "a", score |-> 25, source_path |-> sp, page_uris |-> us,
      line_start |-> ln[1], line_end |-> ln[2], why |-> why, metadata |-> md] :
        sp \in {NoneOpt, Some(""), Some("l.py")}, us \in PageUriLists,
        ln \in {<<NoneOpt, NoneOpt>>, <<Some(1), Some(5)>>},
        why \in {<<>>, << <<"term", "a", 1>> >>}, md \in Metadatas}

MergeInit ==
    /\ ChunkIdle /\ LexicalIdle
    /\ ScoreIdle /\ SemanticIdle /\ EmbedIdle /\ OtherIdle
    /\ query = <<>> /\ filters = FALSE /\ effective = FALSE /\ k = 0
    /\ w_semantic = 6 /\ w_lexical = 4
    /\ sem_results = <<>> /\ lex_results = <<>>
    /\ fused = <<>> /\ other_fused = <<>>
    /\ hcalls = {}
    /\ hpc = "idle"
    /\ m_sem \in {NoneOpt} \cup {Some(r) : r \in SemMatches}
    /\ m_lex \in {NoneOpt} \cup {Some(r) : r \in LexMatches}
    /\ ~(IsNone(m_sem) /\ IsNone(m_lex))
    /\ m_out = NoneOpt
    /\ mpc = "call"

\* indexer.py:791-830, the id being first in each channel that holds it
MergeOne ==
    /\ mpc = "call"
    /\ m_out' = Some(FuseRecord("a", m_sem, m_lex,
                                IF IsNone(m_sem) THEN None ELSE 0,
                                IF IsNone(m_lex) THEN None ELSE 0))
    /\ mpc' = "returned"
    /\ UNCHANGED <<m_sem, m_lex>>
    /\ UNCHANGED <<cvars, hvars, lvars, scvars, smvars, evars, ovars>>

MergeNext == MergeOne

SpecMerge == MergeInit /\ [][MergeNext]_vars

----------------------------------------------------------------------------
(* Properties of the merged fields *)

Merged == mpc = "returned"

BothChannels == ~IsNone(m_sem) /\ ~IsNone(m_lex)

\* the value of an optional field is set
IsSetStr(o) == ~IsNone(o) /\ Val(o) # ""
IsSetInt(o) == ~IsNone(o)

\* lex followed by sem, without the empty entries and without the later
\* duplicates
ClaimedUnion(lex, sem) ==
    LET both == lex \o sem
    IN  SelectFrom(both,
                   {x \in 1..Len(both) :
                      both[x] # "" /\ \A y \in 1..(x - 1) : both[y] # both[x]},
                   1)

\* C16: for an id of both channels, source_path, line_start and line_end are
\* the lexical result's when set, else the semantic result's; page_uris is the
\* lexical list followed by the semantic list without later duplicates and
\* empty entries; why is the lexical why followed by the semantic why.
C16_MergedFields ==
    (Merged /\ BothChannels) =>
      LET o == Val(m_out)
          l == Val(m_lex)
          s == Val(m_sem)
      IN  /\ o.source_path = IF IsSetStr(l.source_path) THEN l.source_path
                             ELSE s.source_path
          /\ o.line_start = IF IsSetInt(l.line_start) THEN l.line_start ELSE s.line_start
          /\ o.line_end = IF IsSetInt(l.line_end) THEN l.line_end ELSE s.line_end
          /\ o.page_uris = ClaimedUnion(l.page_uris, s.page_uris)
          /\ o.why = l.why \o s.why

\* C16 witness: the lexical result has no source_path but line numbers and a
\* why entry, the semantic one has a source_path, and the two page_uris lists
\* share an entry.
C16_Witness ==
    /\ Merged /\ BothChannels
    /\ IsNone(Val(m_lex).source_path) /\ IsSetStr(Val(m_sem).source_path)
    /\ IsSetInt(Val(m_lex).line_start)
    /\ Val(m_lex).why # <<>>
    /\ Val(m_lex).page_uris # <<>>
    /\ Len(Val(m_out).page_uris) < Len(Val(m_lex).page_uris) + Len(Val(m_sem).page_uris)
    /\ Len(Val(m_out).page_uris) > Len(Val(m_lex).page_uris)

\* C17 (as claimed): the fused result carries a metadata mapping, the
\* normalized metadata the channel results carry for the document.
C17_FusedCarriesMetadata ==
    Merged =>
      /\ "metadata" \in DOMAIN Val(m_out)
      /\ Val(m_out)["metadata"] \in
            {Val(m)["metadata"] : m \in {m_sem, m_lex} \ {NoneOpt}}

----------------------------------------------------------------------------
(***************************************************************************)
(* The three search entry points together: a call of hybrid_search, of     *)
(* lexical_search or of semantic_search.                                   *)
(***************************************************************************)

SearchInit == HybridInit \/ LexicalInit \/ SemanticInit

SearchNext == HybridNext \/ LexicalNext \/ SemanticNext

SpecSearch == SearchInit /\ [][SearchNext]_vars

\* C18: hybrid_search with k <= 0, or with a blank query and no active filter,
\* returns [] and has made no embedding call and no get/query; lexical_search
\* without an effective filter and semantic_search with a blank query return
\* [] without a call to the store.
C18_DegenerateCallsTouchNothing ==
    /\ (Returned /\ (k <= 0 \/ (Strip(query) = <<>> /\ ~effective))) =>
          fused = <<>> /\ hcalls = {}
    /\ (LexReturned /\ Given(must_terms) = {} /\ ValidGiven = {}
          /\ (IsNone(path_like) \/ Strip(Val(path_like)) = <<>>)) =>
          lex_out = <<>> /\ lgets = 0
    /\ (SemReturned /\ Strip(sq) = <<>>) =>
          sem_out = <<>> /\ scalls = {}

\* C18 witness: hybrid_search returns for k > 0, a query of blanks and filter
\* arguments that are given but empty after sanitizing, so that the lexical
\* channel was entered.
C18_Witness ==
    /\ Returned
    /\ k > 0
    /\ query # <<>> /\ Strip(query) = <<>>
    /\ filters /\ ~effective
    /\ fused = <<>> /\ hcalls = {}

----------------------------------------------------------------------------
(***************************************************************************)
(* embed_texts and _embed_batch_with_retry (embeddings.py).  One action    *)
(* per iteration of the batch loop and of the retry loop.  A delay is      *)
(* counted in units of base_delay; the jitter of up to 10% is left out.    *)
(***************************************************************************)

\* bounds of the model: the largest max_retries and the largest number of
\* batches of a call
MaxRetries == 3
MaxBatches == 2

\* embeddings.py:58
BATCH_SIZE == 2048

\* len(texts) of the calls: full batches, and full batches plus one text
TextCounts ==
    {b * BATCH_SIZE : b \in 0..MaxBatches}
      \cup {b * BATCH_SIZE + 1 : b \in 0..(MaxBatches - 1)}

\* embeddings.py:17: the model of the call has an expected dimension or not
Models == {"text-embedding-3-small", "other"}

\* what client.embeddings.create does: it returns one vector of the expected
\* dimension per text, returns too few vectors, returns vectors of another
\* dimension, or raises RateLimitError, APITimeoutError or another APIError
Responses == {"ok", "short_response", "wrong_dims",
              "RateLimitError", "APITimeoutError", "APIError"}

\* a plausible slip: every API error is retried
IsRetryable_AnyApiError(r) == r \in {"RateLimitError", "APITimeoutError", "APIError"}

\* embeddings.py:110, 119: the errors that are caught for a retry
IsRetryable(r) == r \in {"RateLimitError", "APITimeoutError"}

\* embeddings.py:96-106, 128-134: the exception a response ends the call with,
\* "" if it is accepted
Failure(r, mdl) ==
    CASE r = "short_response" -> "ValueError: count mismatch"
      [] r = "wrong_dims" /\ mdl = "text-embedding-3-small" -> "ValueError: dimension mismatch"
      [] r \in {"RateLimitError", "APITimeoutError", "APIError"} -> r
      [] OTHER -> ""

\* a plausible slip: the last attempt is taken for one more
IsLastAttempt_OneMore(a, retries) == a >= retries

\* embeddings.py:112, 121: `attempt < max_retries - 1` fails
IsLastAttempt(a, retries) == a >= retries - 1

RECURSIVE Pow2(_)
Pow2(n) == IF n <= 0 THEN 1 ELSE 2 * Pow2(n - 1)

\* embeddings.py:114, 123, without the jitter
Delay(a) == Pow2(a)

CallEvent(b, r) == <<"call", b, r>>
SleepEvent(d) == <<"sleep", d>>

EmbedInit ==
    /\ ChunkIdle /\ HybridIdle /\ LexicalIdle
    /\ ScoreIdle /\ SemanticIdle /\ MergeIdle /\ OtherIdle
    /\ n_texts \in TextCounts
    /\ emodel \in Models
    /\ max_retries \in 0..MaxRetries
    /\ key_ok \in BOOLEAN
    /\ batch_i = 0
    /\ attempt = 0
    /\ last_error = ""
    /\ elog = <<>>
    /\ all_embeddings = 0
    /\ raised = ""
    /\ epc = "call"

\* embeddings.py:50-55: no texts give []; a missing API key raises
EmbedEnter ==
    /\ epc = "call"
    /\ IF n_texts = 0
       THEN epc' = "returned" /\ UNCHANGED raised
       ELSE IF ~key_ok
            THEN epc' = "raised" /\ raised' = "config: OPENAI_API_KEY"
            ELSE epc' = "batch" /\ UNCHANGED raised
    /\ UNCHANGED <<n_texts, emodel, max_retries, key_ok, batch_i, attempt, last_error,
                   elog, all_embeddings>>
    /\ UNCHANGED <<cvars, hvars, lvars, scvars, smvars, mvars, ovars>>

\* embeddings.py:62-67, 89: the next batch is started, or all batches are done
NextBatch ==
    /\ epc = "batch"
    /\ IF batch_i >= n_texts
       THEN epc' = "returned" /\ UNCHANGED <<attempt, last_error>>
       ELSE epc' = "attempt" /\ attempt' = 0 /\ last_error' = ""
    /\ UNCHANGED <<n_texts, emodel, max_retries, key_ok, batch_i, elog, all_embeddings,
                   raised>>
    /\ UNCHANGED <<cvars, hvars, lvars, scvars, smvars, mvars, ovars>>

\* embeddings.py:91-138: one iteration of the retry loop (the API call, the
\* checks of the response, the sleep before a retry), or the end of the loop
Attempt ==
    /\ epc = "attempt"
    /\ IF attempt >= max_retries
       THEN \* embeddings.py:137-138
            /\ epc' = "raised"
            /\ raised' = IF last_error = "" THEN "AssertionError" ELSE last_error
            /\ UNCHANGED <<batch_i, attempt, last_error, elog, all_embeddings>>
       ELSE \E r \in Responses :
              LET failure == Failure(r, emodel)
                  called == Append(elog, CallEvent(batch_i, r))
              IN  IF failure = ""
                  THEN /\ all_embeddings' = all_embeddings
                                              + Min(BATCH_SIZE, n_texts - batch_i)
                       /\ batch_i' = batch_i + BATCH_SIZE
                       /\ elog' = called
                       /\ epc' = "batch"
                       /\ UNCHANGED <<attempt, last_error, raised>>
                  ELSE IF IsRetryable(failure) /\ ~IsLastAttempt(attempt, max_retries)
                  THEN /\ last_error' = failure
                       /\ elog' = Append(called, SleepEvent(Delay(attempt)))
                       /\ attempt' = attempt + 1
                       /\ UNCHANGED <<batch_i, all_embeddings, raised, epc>>
                  ELSE /\ last_error' = IF IsRetryable(failure) THEN failure ELSE last_error
                       /\ elog' = called
                       /\ epc' = "raised"
                       /\ raised' = failure
                       /\ UNCHANGED <<batch_i, attempt, all_embeddings>>
    /\ UNCHANGED <<n_texts, emodel, max_retries, key_ok>>
    /\ UNCHANGED <<cvars, hvars, lvars, scvars, smvars, mvars, ovars>>

EmbedNext == EmbedEnter \/ NextBatch \/ Attempt

SpecEmbed == EmbedInit /\ [][EmbedNext]_vars

----------------------------------------------------------------------------
(* Properties of the embedding client *)

LogIdx == 1..Len(elog)

IsCall(x) == elog[x][1] = "call"
IsSleep(x) == elog[x][1] = "sleep"

\* the API calls made for the batch of call x, up to and including x
CallsUpTo(x) ==
    Cardinality({y \in 1..x : IsCall(y) /\ elog[y][2] = elog[x][2]})

RateOrTimeout(x) == IsCall(x) /\ elog[x][3] \in {"RateLimitError", "APITimeoutError"}

\* call x did not give a usable result, and not by a rate limit or a timeout
OtherFailure(x) ==
    /\ IsCall(x)
    /\ \/ elog[x][3] \in {"APIError", "short_response"}
       \/ elog[x][3] = "wrong_dims" /\ emodel = "text-embedding-3-small"

Succeeded(x) ==
    /\ IsCall(x)
    /\ \/ elog[x][3] = "ok"
       \/ elog[x][3] = "wrong_dims" /\ emodel # "text-embedding-3-small"

\* C19: for max_retries >= 1 there are at most max_retries API calls per
\* batch; a rate-limit or timeout failure before the max_retries-th call is
\* followed by one sleep and then by the next call of the batch; no call of a
\* batch follows its first success; the max_retries-th failure is raised as it
\* is, with no sleep after it.
C19_BoundedRetries ==
    max_retries >= 1 =>
      /\ \A x \in LogIdx : IsCall(x) => CallsUpTo(x) <= max_retries
      /\ \A x \in LogIdx :
            (RateOrTimeout(x) /\ CallsUpTo(x) < max_retries) =>
               /\ x + 1 \in LogIdx /\ IsSleep(x + 1)
               /\ IF x + 2 \in LogIdx
                  THEN IsCall(x + 2) /\ elog[x + 2][2] = elog[x][2]
                  ELSE epc = "attempt"
      /\ \A x \in LogIdx :
            (RateOrTimeout(x) /\ CallsUpTo(x) = max_retries) =>
               /\ x = Len(elog)
               /\ epc = "raised" /\ raised = elog[x][3]
      /\ \A x \in LogIdx : IsSleep(x) => (x > 1 /\ RateOrTimeout(x - 1))
      /\ \A x, y \in LogIdx :
            (Succeeded(x) /\ x < y /\ IsCall(y)) => elog[y][2] # elog[x][2]

\* C19 witness: a call with max_retries >= 2 whose first batch succeeded
\* after a failure and a sleep and whose second batch failed max_retries
\* times, the last failure being raised.
C19_Witness ==
    /\ epc = "raised"
    /\ max_retries >= 2
    /\ Len(elog) >= 3
    /\ RateOrTimeout(1) /\ IsSleep(2) /\ Succeeded(3)
    /\ RateOrTimeout(Len(elog))
    /\ CallsUpTo(Len(elog)) = max_retries
    /\ raised = elog[Len(elog)][3]

\* C20: a failure that is neither a rate limit nor a timeout ends the call at
\* once: it is the last event (no call and no sleep after it), it is the error
\* raised, and nothing is returned.
C20_OtherErrorsPropagate ==
    \A x \in LogIdx :
      OtherFailure(x) =>
        /\ x = Len(elog)
        /\ epc = "raised"
        /\ raised = Failure(elog[x][3], emodel)
        /\ raised \notin {"RateLimitError", "APITimeoutError", ""}

\* C20 witness: the second batch's first call fails with a count mismatch
\* after the first batch was embedded following a retry and retries are left.
C20_Witness ==
    /\ epc = "raised"
    /\ max_retries >= 2
    /\ all_embeddings = BATCH_SIZE
    /\ Len(elog) >= 4
    /\ IsSleep(2)
    /\ elog[Len(elog)][3] = "short_response"
    /\ CallsUpTo(Len(elog)) = 1
    /\ raised = "ValueError: count mismatch"

----------------------------------------------------------------------------
(***************************************************************************)
(* Errors of a semantic search: semantic_search (indexer.py) called        *)
(* directly, and through semantic_endpoint (api/routes/search.py).  The    *)
(* text of an exception is the set of the substrings the code probes for   *)
(* that it holds: "OPENAI_API_KEY" (as written), "api key" and             *)
(* "embed query" (in the lowercased text).                                 *)
(***************************************************************************)

Markers == {"OPENAI_API_KEY", "api key", "embed query"}

\* the failures of the embedding call that are a matter of credentials or
\* configuration, and those of the embedding service
CredentialKinds == {"missing_key", "invalid_key"}
ServiceKinds == {"rate_limit", "timeout", "api_error", "bad_response"}

\* str(e) of a failure of embed_texts: config.py:152 names OPENAI_API_KEY,
\* the service's 401 says "Incorrect API key provided", the other texts
\* hold none of the probed substrings
EmbedText(kind) ==
    CASE kind = "missing_key" -> {"OPENAI_API_KEY"}
      [] kind = "invalid_key" -> {"api key"}
      [] OTHER -> {}

\* what embed_texts([q]) can end with: without a key it raises before any
\* request (embeddings.py:53); with a key the service answers or fails
EmbedOutcomes(has_key) ==
    IF has_key THEN {"ok", "invalid_key"} \cup ServiceKinds ELSE {"missing_key"}

Cause(site, kind, txt) == [site |-> site, kind |-> kind, text |-> txt]

\* indexer.py:641-647: the ValueError raised for a failed embedding call
EmbedError(error_msg) ==
    IF "OPENAI_API_KEY" \in error_msg \/ "api key" \in error_msg
    THEN {"embed query", "OPENAI_API_KEY"}
    ELSE {"embed query"} \cup error_msg

\* indexer.py:658-662: the ValueError raised for a failed query of the
\* collection, "Failed to query ChromaDB collection ...: {str(e)}. ..."
QueryError(error_msg) == error_msg

\* search.py:40-45: _map_upstream_exception
_map_upstream_exception(msg) ==
    IF "OPENAI_API_KEY" \in msg \/ "embed query" \in msg THEN 400 ELSE 502

ApiInit ==
    /\ ChunkIdle /\ HybridIdle /\ LexicalIdle
    /\ ScoreIdle /\ SemanticIdle /\ MergeIdle /\ EmbedIdle /\ MetaIdle
    /\ a_via \in {"api", "direct"}
    /\ a_key \in BOOLEAN
    /\ a_query \in Queries
    /\ a_k \in 0..MaxK
    /\ a_cause = NoneOpt
    /\ a_raised = NoneOpt
    /\ a_status = 0
    /\ apc = "request"

\* search.py:110-114: the endpoint refuses a request when no key is configured
ApiEnter ==
    /\ apc = "request"
    /\ IF a_via = "api" /\ ~a_key
       THEN a_status' = 400 /\ apc' = "responded"
       ELSE UNCHANGED a_status /\ apc' = "search"
    /\ UNCHANGED <<a_via, a_key, a_query, a_k, a_cause, a_raised>>
    /\ UNCHANGED <<cvars, hvars, lvars, scvars, smvars, mvars, evars, mtvars>>

\* indexer.py:631-633: a blank query or k <= 0 returns []
ApiSearchEnter ==
    /\ apc = "search"
    /\ apc' = IF Strip(a_query) = <<>> \/ a_k <= 0 THEN "ok" ELSE "embed"
    /\ UNCHANGED <<a_via, a_key, a_query, a_k, a_cause, a_raised, a_status>>
    /\ UNCHANGED <<cvars, hvars, lvars, scvars, smvars, mvars, evars, mtvars>>

\* indexer.py:638-647: the query is embedded; every failure is re-raised as a
\* ValueError
ApiEmbed ==
    /\ apc = "embed"
    /\ \E outcome \in EmbedOutcomes(a_key) :
          IF outcome = "ok"
          THEN apc' = "query" /\ UNCHANGED <<a_cause, a_raised>>
          ELSE /\ a_cause' = Some(Cause("embed", outcome, EmbedText(outcome)))
               /\ a_raised' = Some(EmbedError(EmbedText(outcome)))
               /\ apc' = "raised"
    /\ UNCHANGED <<a_via, a_key, a_query, a_k, a_status>>
    /\ UNCHANGED <<cvars, hvars, lvars, scvars, smvars, mvars, evars, mtvars>>

\* indexer.py:652-662: the collection is queried; a failure is re-raised as a
\* ValueError
ApiQuery ==
    /\ apc = "query"
    /\ \/ apc' = "ok" /\ UNCHANGED <<a_cause, a_raised>>
       \/ /\ a_cause' = Some(Cause("query", "index_error", {}))
          /\ a_raised' = Some(QueryError({}))
          /\ apc' = "raised"
    /\ UNCHANGED <<a_via, a_key, a_query, a_k, a_status>>
    /\ UNCHANGED <<cvars, hvars, lvars, scvars, smvars, mvars, evars, mtvars>>

\* search.py:113-118: the endpoint answers with the results, or with the
\* status _map_upstream_exception gives the exception
ApiRespond ==
    /\ a_via = "api"
    /\ apc \in {"ok", "raised"}
    /\ a_status' = IF apc = "ok" THEN 200 ELSE _map_upstream_exception(Val(a_raised))
    /\ apc' = "responded"
    /\ UNCHANGED <<a_via, a_key, a_query, a_k, a_cause, a_raised>>
    /\ UNCHANGED <<cvars, hvars, lvars, scvars, smvars, mvars, evars, mtvars>>

ApiNext == ApiEnter \/ ApiSearchEnter \/ ApiEmbed \/ ApiQuery \/ ApiRespond

SpecApi == ApiInit /\ [][ApiNext]_vars

\* the kind an error is surfaced as: by its status at the endpoint
SurfacedKind(status) ==
    CASE status = 400 -> "misconfiguration"
      [] status = 502 -> "upstream dependency"
      [] OTHER -> "none"

\* C21: a failure of the embedding call that is not a matter of credentials
\* is answered as an upstream-dependency error (502), a failure that is one as
\* a misconfiguration (400); the ValueErrors semantic_search raises for the two
\* differ in whether they name OPENAI_API_KEY.
C21_ErrorKindsDistinct ==
    /\ (apc \in {"raised", "responded"} /\ ~IsNone(a_cause)) =>
          ("OPENAI_API_KEY" \in Val(a_raised)
              <=> Val(a_cause).kind \in CredentialKinds)
    /\ (apc = "responded" /\ ~IsNone(a_cause)) =>
          SurfacedKind(a_status) =
             IF Val(a_cause).kind \in CredentialKinds
             THEN "misconfiguration" ELSE "upstream dependency"

----------------------------------------------------------------------------
(* The order of the channels and of the fusion in hybrid_search *)

\* the semantic channel has completed: its embedding call and its query were made
SemanticDone == {"embed", "query"} \subseteq hcalls

\* the lexical channel has completed: its code.get was made
LexicalDone == "get" \in hcalls

----------------------------------------------------------------------------
(***************************************************************************)
(* _normalize_metadata_for_chroma and _parse_meta_list (indexer.py), for   *)
(* the value of one metadata field.  A string is a sequence of             *)
(* one-character strings over letters, the comma and the blank; a value    *)
(* carries the Python type it has.                                         *)
(***************************************************************************)

\* bounds of the model: the longest list item, the longest list and the
\* longest string value
MaxItemLen == 2
MaxItems == 2
MaxStrLen == 4

MetaChars == {"a", ",", " "}

ListValue(xs) == [type |-> "list", v |-> xs]
StrValue(str) == [type |-> "str", v |-> str]
\* None and an int: values that are neither a list nor a str
NoneValue == [type |-> "none", v |-> <<>>]
IntValue == [type |-> "int", v |-> <<>>]

ListValues == {ListValue(xs) : xs \in SeqsUpTo(SeqsUpTo(MetaChars, MaxItemLen), MaxItems)}
StrValues == {StrValue(str) : str \in SeqsUpTo(MetaChars, MaxStrLen)}
OtherValues == {NoneValue, IntValue}

\* ",".join(xs)
RECURSIVE CommaJoin(_)
CommaJoin(xs) ==
    IF xs = <<>> THEN <<>>
    ELSE IF Len(xs) = 1 THEN xs[1]
    ELSE xs[1] \o <<",">> \o CommaJoin(Tail(xs))

\* value.split(","): the parts between the commas, the empty ones included
RECURSIVE SplitAcc(_, _)
SplitAcc(str, cur) ==
    IF str = <<>> THEN <<cur>>
    ELSE IF Head(str) = "," THEN <<cur>> \o SplitAcc(Tail(str), <<>>)
    ELSE SplitAcc(Tail(str), Append(cur, Head(str)))

SplitComma(str) == SplitAcc(str, <<>>)

\* indexer.py:336, 342: every item stripped
StripAll(parts) == [x \in 1..Len(parts) |-> Strip(parts[x])]

\* a plausible slip: the seen set is not consulted
RECURSIVE KeepFirst_Duplicates(_, _)
KeepFirst_Duplicates(out, items) ==
    IF items = <<>> THEN out
    ELSE IF Head(items) = <<>>
         THEN KeepFirst_Duplicates(out, Tail(items))
         ELSE KeepFirst_Duplicates(Append(out, Head(items)), Tail(items))

\* indexer.py:335-339, 343-348: the items that are not empty and not seen
\* before, in order
RECURSIVE KeepFirst(_, _)
KeepFirst(out, items) ==
    IF items = <<>> THEN out
    ELSE IF Head(items) = <<>> \/ \E x \in 1..Len(out) : out[x] = Head(items)
         THEN KeepFirst(out, Tail(items))
         ELSE KeepFirst(Append(out, Head(items)), Tail(items))

\* indexer.py:323-350
_parse_meta_list(value) ==
    CASE value.type = "list" -> KeepFirst(<<>>, StripAll(value.v))
      [] value.type = "str" -> KeepFirst(<<>>, StripAll(SplitComma(value.v)))
      [] OTHER -> <<>>

\* indexer.py:363-369, for one value: a list is comma-joined (the empty list
\* gives ""), a str, an int and None are kept
_normalize_metadata_for_chroma(value) ==
    IF value.type = "list"
    THEN StrValue(IF value.v # <<>> THEN CommaJoin(value.v) ELSE <<>>)
    ELSE value

MetaInit ==
    /\ ChunkIdle /\ HybridIdle /\ LexicalIdle
    /\ ScoreIdle /\ SemanticIdle /\ MergeIdle /\ EmbedIdle /\ ApiIdle
    /\ \/ mt_value \in ListValues
       \/ mt_value \in StrValues
       \/ mt_value \in OtherValues
    /\ mt_stored = <<>>
    /\ mt_back = <<>>
    /\ mt_parsed = <<>>
    /\ mt_again = <<>>
    /\ mtpc = "call"

\* indexer.py:102, 127: the field is normalized for the store
MetaNormalize ==
    /\ mtpc = "call"
    /\ mt_stored' = _normalize_metadata_for_chroma(mt_value)
    /\ mtpc' = "stored"
    /\ UNCHANGED <<mt_value, mt_back, mt_parsed, mt_again>>
    /\ UNCHANGED <<cvars, hvars, lvars, scvars, smvars, mvars, evars, avars>>

\* indexer.py:566, 673, 687: the stored value is read back
MetaHydrate ==
    /\ mtpc = "stored"
    /\ mt_back' = _parse_meta_list(mt_stored)
    /\ mtpc' = "hydrated"
    /\ UNCHANGED <<mt_value, mt_stored, mt_parsed, mt_again>>
    /\ UNCHANGED <<cvars, hvars, lvars, scvars, smvars, mvars, evars, avars>>

\* _parse_meta_list(v)
MetaParse ==
    /\ mtpc = "hydrated"
    /\ mt_parsed' = _parse_meta_list(mt_value)
    /\ mtpc' = "parsed"
    /\ UNCHANGED <<mt_value, mt_stored, mt_back, mt_again>>
    /\ UNCHANGED <<cvars, hvars, lvars, scvars, smvars, mvars, evars, avars>>

\* _parse_meta_list(_parse_meta_list(v))
MetaParseAgain ==
    /\ mtpc = "parsed"
    /\ mt_again' = _parse_meta_list(ListValue(mt_parsed))
    /\ mtpc' = "done"
    /\ UNCHANGED <<mt_value, mt_stored, mt_back, mt_parsed>>
    /\ UNCHANGED <<cvars, hvars, lvars, scvars, smvars, mvars, evars, avars>>

MetaNext == MetaNormalize \/ MetaHydrate \/ MetaParse \/ MetaParseAgain

SpecMeta == MetaInit /\ [][MetaNext]_vars

\* xs is a list of distinct, non-empty, whitespace-trimmed strings
TrimmedDistinct(xs) ==
    /\ \A x \in 1..Len(xs) : xs[x] # <<>> /\ Strip(xs[x]) = xs[x]
    /\ \A x, y \in 1..Len(xs) : x # y => xs[x] # xs[y]

\* C23 (as claimed): for every list xs of distinct, non-empty, trimmed strings
\* _parse_meta_list of the value stored for xs is xs again.
C23_RoundTrip ==
    (mtpc \in {"hydrated", "parsed", "done"}
        /\ mt_value.type = "list" /\ TrimmedDistinct(mt_value.v)) =>
      mt_back = mt_value.v

\* the items a value is made of: the items of a list, the parts of a string
\* between its commas
ItemsOf(value) ==
    CASE value.type = "list" -> value.v
      [] value.type = "str" -> SplitComma(value.v)
      [] OTHER -> <<>>

\* C24: for a string the items are its comma-separated parts (joined by
\* commas they give the string again, and none holds a comma); the result holds
\* exactly the non-empty trimmed items, each once, in the order of their first
\* occurrence; it is [] for a value that is neither a list nor a string; and
\* parsing the result again gives the result.
C24_ParseMetaList ==
    mtpc \in {"parsed", "done"} =>
      LET items == ItemsOf(mt_value)
          out == mt_parsed
      IN  /\ mt_value.type = "str" =>
                /\ CommaJoin(items) = mt_value.v
                /\ \A x \in 1..Len(items) : \A y \in 1..Len(items[x]) : items[x][y] # ","
          /\ mt_value.type \notin {"list", "str"} => out = <<>>
          /\ \A x \in 1..Len(out) :
                /\ out[x] # <<>>
                /\ \E y \in 1..Len(items) : Strip(items[y]) = out[x]
          /\ \A y \in 1..Len(items) :
                Strip(items[y]) # <<>> => \E x \in 1..Len(out) : out[x] = Strip(items[y])
          /\ \A x, y \in 1..Len(out) : x # y => out[x] # out[y]
          /\ \A x, y \in 1..Len(out) :
                x < y => \E a \in 1..Len(items) :
                            /\ Strip(items[a]) = out[x]
                            /\ \A b \in 1..a : Strip(items[b]) # out[y]
          /\ mtpc = "done" => mt_again = out

\* C24 witness: a string of two parts that differ only in blanks: one item is
\* returned, also when parsed again.
C24_Witness ==
    /\ mtpc = "done"
    /\ mt_value.type = "str"
    /\ Len(ItemsOf(mt_value)) = 2
    /\ ItemsOf(mt_value)[1] # ItemsOf(mt_value)[2]
    /\ Strip(ItemsOf(mt_value)[1]) = Strip(ItemsOf(mt_value)[2])
    /\ Len(mt_parsed) = 1
    /\ mt_again = mt_parsed

(* Invalid regex patterns *)

\* the given patterns that re.compile rejects, with re.error or otherwise
RejectedGiven ==
    {raw \in Given(regexes) : ~IsValidRegex(raw) \/ CompileOverflows(raw)}

\* C26 (as claimed): a pattern that does not compile never makes
\* lexical_search raise, and a call whose only filter is such a pattern
\* returns [] without a call to the store.
C26_InvalidRegexNeverRaises ==
    /\ lpc # "raised"
    /\ (/\ LexReturned /\ lk > 0
        /\ Given(must_terms) = {}
        /\ IsNone(path_like) \/ Strip(Val(path_like)) = <<>>
        /\ Given(regexes) # {} /\ Given(regexes) \subseteq RejectedGiven)
         => lex_out = <<>> /\ lgets = 0

----------------------------------------------------------------------------
(***************************************************************************)
(* Termination of chunk_file_by_lines: the caller makes one call, with any *)
(* text and parameters, and the call runs on until it returns or raises.   *)
(***************************************************************************)

ChunkLiveInit ==
    /\ ChunkIdle
    /\ HybridIdle
    /\ LexicalIdle
    /\ ScoreIdle /\ SemanticIdle /\ MergeIdle /\ EmbedIdle /\ OtherIdle

\* chunker.py:81-86: the call with its arguments
ChunkCall ==
    /\ cpc = "idle"
    /\ text' \in Texts
    /\ per_chunk' \in 0..MaxPerChunk
    /\ overlap' \in -1..MaxPerChunk
    /\ cpc' = "call"
    /\ UNCHANGED <<lines, start, chunks>>
    /\ UNCHANGED <<hvars, lvars, nvars>>

ChunkLiveNext == ChunkCall \/ ChunkNext

\* a call that has been entered keeps running: weak fairness of its steps
SpecChunkerLive == ChunkLiveInit /\ [][ChunkLiveNext]_vars /\ WF_vars(ChunkNext)

\* the call has returned or raised
ChunkerEnded == cpc \in {"done", "value_error", "decode_error"}

\* one iteration of the window loop that goes on to the next one: the start
\* moves by 1 after a split line, else by max(1, actual length - overlap),
\* the actual length being read off the chunk the iteration appended
LoopStep ==
    (cpc = "loop" /\ cpc' = "loop") =>
      /\ start' > start
      /\ Len(chunks') > Len(chunks)
      /\ LET last == chunks'[Len(chunks')]
         IN  IF IsOversized(start)
             THEN start' = start + 1
             ELSE start' = start + Max(1, (last.line_end - start) - overlap)

\* the segments of every line of the text that _split_line_by_bytes splits
\* are non-empty and add up to the line: the offset advances by at least
\* one byte per segment and reaches the end
SplitAdvances ==
    \A x \in 1..Len(lines) :
       LET segs == _split_line_by_bytes(lines[x], CHROMA_CLOUD_DOC_MAX_BYTES)
       IN  (ByteLen(lines[x]) > CHROMA_CLOUD_DOC_MAX_BYTES /\ segs.ok) =>
             /\ \A y \in 1..Len(segs.out) : ByteLen(segs.out[y]) >= 1
             /\ ByteLen(Join(segs.out)) = ByteLen(lines[x])

====
